---------------------------- MODULE Spec2Model ----------------------------
(***************************************************************************)
(* A model of subunit-money: the currency registry (lib/currency.ts), the  *)
(* Money value object (lib/index.ts), the exchange-rate store              *)
(* (lib/exchange-rate-service.ts) and the converter                        *)
(* (lib/money-converter.ts).                                               *)
(*                                                                         *)
(* Text is a sequence of one-character strings, so that parsing and        *)
(* formatting are computed character by character as the code does.        *)
(* A bigint is an integer with JavaScript's truncating / and %.            *)
(* A thrown error is a result record [kind |-> <error class name>].        *)
(***************************************************************************)
EXTENDS Integers, Sequences, FiniteSets, TLC

VARIABLES
    registry,   \* currency.ts `currencies`: the Map code -> decimalDigits
    monies,     \* the Money instances that exist
    rates,      \* ExchangeRateService.#rates: the Map key -> entry
    call,       \* the operation invoked last and its arguments
    ret         \* what that operation returned or threw; Pending before it ran

vars == <<registry, monies, rates, call, ret>>

(***************************************************************************)
(* Bounds of the model.                                                    *)
(***************************************************************************)
MaxDecimals == 3      \* decimalDigits range over 0..MaxDecimals
MaxStrLen == 4        \* longest amount text that is enumerated
MaxSub == 12          \* enumerated subunit counts range over -MaxSub..MaxSub
MaxMonies == 2        \* Money instances kept alive at once

Codes == {"USD", "JPY"}
Pending == [kind |-> "pending"]

(***************************************************************************)
(* bigint arithmetic                                                       *)
(***************************************************************************)
Abs(n) == IF n < 0 THEN -n ELSE n

\* bigint `/`: truncates toward zero
TruncDiv(a, b) == IF (a < 0) = (b < 0) THEN Abs(a) \div Abs(b) ELSE -(Abs(a) \div Abs(b))

\* bigint `%`: the sign of the dividend
TruncRem(a, b) == a - b * TruncDiv(a, b)

\* bigint `**` with a non-negative exponent
RECURSIVE Pow(_, _)
Pow(b, e) == IF e = 0 THEN 1 ELSE b * Pow(b, e - 1)

(***************************************************************************)
(* text                                                                    *)
(***************************************************************************)
DigitChars == <<"0", "1", "2", "3", "4", "5", "6", "7", "8", "9">>
Digits == {DigitChars[i] : i \in 1..10}
DigitValue(c) == CHOOSE d \in 0..9 : DigitChars[d + 1] = c
IsDigits(s) == \A i \in 1..Len(s) : s[i] \in Digits

\* String.prototype.padEnd(n, '0')
RECURSIVE padEnd(_, _)
padEnd(s, n) == IF Len(s) >= n THEN s ELSE padEnd(Append(s, "0"), n)

\* String.prototype.padStart(n, '0')
RECURSIVE padStart(_, _)
padStart(s, n) == IF Len(s) >= n THEN s ELSE padStart(<<"0">> \o s, n)

\* BigInt(text) of a text of digits
RECURSIVE BigIntOf(_)
BigIntOf(s) ==
    IF Len(s) = 0 THEN 0
    ELSE 10 * BigIntOf(SubSeq(s, 1, Len(s) - 1)) + DigitValue(s[Len(s)])

\* bigint.toString() of a non-negative bigint
RECURSIVE BigIntToString(_)
BigIntToString(n) ==
    IF n < 10 THEN <<DigitChars[n + 1]>>
    ELSE Append(BigIntToString(n \div 10), DigitChars[(n % 10) + 1])

\* str.match(/^(-)?(\d+)(?:\.(\d+))?$/); frac is '' when the group is absent
MatchDecimal(str) ==
    LET hasSign == Len(str) > 0 /\ str[1] = "-"
        body == IF hasSign THEN Tail(str) ELSE str
        dots == {i \in 1..Len(body) : body[i] = "."}
        hasDot == dots # {}
        dot == CHOOSE i \in dots : \A j \in dots : i <= j
        whole == IF hasDot THEN SubSeq(body, 1, dot - 1) ELSE body
        frac == IF hasDot THEN SubSeq(body, dot + 1, Len(body)) ELSE <<>>
    IN  [ok |-> /\ Len(whole) > 0
                /\ IsDigits(whole)
                /\ hasDot => (Len(frac) > 0 /\ IsDigits(frac)),
         sign |-> IF hasSign THEN "-" ELSE "",
         whole |-> whole,
         frac |-> frac]

(***************************************************************************)
(* lib/currency.ts                                                         *)
(***************************************************************************)
getCurrency(reg, code) ==
    IF code \in DOMAIN reg
    THEN [found |-> TRUE, code |-> code, decimalDigits |-> reg[code]]
    ELSE [found |-> FALSE, code |-> code, decimalDigits |-> 0]

hasCurrency(reg, code) == code \in DOMAIN reg

\* currencies.set(code, { code, decimalDigits })
registerCurrency(reg, code, decimalDigits) ==
    [c \in DOMAIN reg \cup {code} |-> IF c = code THEN decimalDigits ELSE reg[c]]

\* currencies.clear()
clearCurrencies(reg) == [c \in {} |-> 0]

\* Object.entries(map) in order, each registered in turn
RECURSIVE loadCurrencyMap(_, _)
loadCurrencyMap(reg, entries) ==
    IF Len(entries) = 0 THEN reg
    ELSE loadCurrencyMap(registerCurrency(reg, entries[1].code, entries[1].decimal_digits),
                         Tail(entries))

(***************************************************************************)
(* lib/index.ts: Money                                                     *)
(***************************************************************************)
Threw(kind) == [kind |-> kind]
Returned(m) == [kind |-> "ok", value |-> m]

\* parseAmount cutting a fraction that is too long instead of refusing it
parseAmount_Truncating(currencyDef, str) ==
    LET match == MatchDecimal(str)
        paddedFrac == SubSeq(padEnd(match.frac, currencyDef.decimalDigits),
                             1, currencyDef.decimalDigits)
        combined == BigIntOf(match.whole \o paddedFrac)
    IN  IF ~match.ok THEN Threw("AmountError")
        ELSE Returned(IF match.sign = "-" THEN -combined ELSE combined)

\* Money.#parseAmount for a string amount
parseAmount(currencyDef, str) ==
    LET parse(match) ==
            LET paddedFrac == padEnd(match.frac, currencyDef.decimalDigits)
                combined == BigIntOf(match.whole \o paddedFrac)
            IN  IF ~match.ok THEN Threw("AmountError")
                ELSE IF Len(match.frac) > currencyDef.decimalDigits
                     THEN Threw("SubunitError")
                ELSE Returned(IF match.sign = "-" THEN -combined ELSE combined)
    IN  parse(MatchDecimal(str))

\* the constructor without its registry check
NewMoney_Unchecked(reg, currency, amount) ==
    LET currencyDef == getCurrency(reg, currency)
        parsed == parseAmount(currencyDef, amount)
    IN  IF parsed.kind # "ok" THEN parsed
        ELSE Returned([currency |-> currency,
                       subunits |-> parsed.value,
                       decimalDigits |-> currencyDef.decimalDigits])

\* new Money(currency, amount)
NewMoney(reg, currency, amount) ==
    LET construct(currencyDef, parsed) ==
            IF ~currencyDef.found THEN Threw("CurrencyUnknownError")
            ELSE IF parsed.kind # "ok" THEN parsed
            ELSE Returned([currency |-> currency,
                           subunits |-> parsed.value,
                           decimalDigits |-> currencyDef.decimalDigits])
        lookedUp(currencyDef) == construct(currencyDef, parseAmount(currencyDef, amount))
    IN  lookedUp(getCurrency(reg, currency))

\* formatSubunits without the zero padding of the fraction
formatSubunits_Unpadded(subunits, decimals) ==
    LET abs == IF subunits < 0 THEN -subunits ELSE subunits
        sign == IF subunits < 0 THEN <<"-">> ELSE <<>>
        multiplier == Pow(10, decimals)
        wholePart == TruncDiv(abs, multiplier)
        fracPart == TruncRem(abs, multiplier)
    IN  IF decimals = 0 THEN sign \o BigIntToString(abs)
        ELSE sign \o BigIntToString(wholePart) \o <<".">> \o BigIntToString(fracPart)

\* Money.#formatSubunits
formatSubunits(subunits, decimals) ==
    LET abs == IF subunits < 0 THEN -subunits ELSE subunits
        sign == IF subunits < 0 THEN <<"-">> ELSE <<>>
        multiplier == Pow(10, decimals)
        wholePart == TruncDiv(abs, multiplier)
        fracPart == TruncRem(abs, multiplier)
    IN  IF decimals = 0 THEN sign \o BigIntToString(abs)
        ELSE sign \o BigIntToString(wholePart) \o <<".">>
                  \o padStart(BigIntToString(fracPart), decimals)

\* the amount getter without the zero padding of the fraction
amount_Unpadded(m) ==
    LET decimals == m.decimalDigits
        abs == IF m.subunits < 0 THEN -m.subunits ELSE m.subunits
        sign == IF m.subunits < 0 THEN <<"-">> ELSE <<>>
        multiplier == Pow(10, decimals)
        wholePart == TruncDiv(abs, multiplier)
        fracPart == TruncRem(abs, multiplier)
    IN  IF decimals = 0 THEN sign \o BigIntToString(abs)
        ELSE sign \o BigIntToString(wholePart) \o <<".">> \o BigIntToString(fracPart)

\* get amount(): the same steps on the instance's own fields
amount(m) ==
    LET decimals == m.decimalDigits
        abs == IF m.subunits < 0 THEN -m.subunits ELSE m.subunits
        sign == IF m.subunits < 0 THEN <<"-">> ELSE <<>>
        multiplier == Pow(10, decimals)
        wholePart == TruncDiv(abs, multiplier)
        fracPart == TruncRem(abs, multiplier)
    IN  IF decimals = 0 THEN sign \o BigIntToString(abs)
        ELSE sign \o BigIntToString(wholePart) \o <<".">>
                  \o padStart(BigIntToString(fracPart), decimals)

\* Money.#createFromSubunits: formats, then goes through the constructor
createFromSubunits(reg, subunits, currency, decimalDigits) ==
    NewMoney(reg, currency, formatSubunits(subunits, decimalDigits))

\* Money.fromSubunits
fromSubunits(reg, subunits, currency) ==
    LET currencyDef == getCurrency(reg, currency)
    IN  IF ~currencyDef.found THEN Threw("CurrencyUnknownError")
        ELSE createFromSubunits(reg, subunits, currency, currencyDef.decimalDigits)

toSubunits(m) == m.subunits
toJSON(m) == [currency |-> m.currency, amount |-> amount(m)]
fromObject(reg, obj) == NewMoney(reg, obj.currency, obj.amount)
zero(reg, currency) == NewMoney(reg, currency, <<"0">>)

\* toString(): the amount, a space and the currency code
toString(m) == amount(m) \o <<" ", m.currency>>

(***************************************************************************)
(* JavaScript numbers.  A finite number is the decimal sig * 10^exp with   *)
(* sig free of trailing zeros (0 is sig = 0, exp = 0), which is the        *)
(* shortest decimal that String(number) prints; NaN and the infinities are *)
(* [finite |-> FALSE].                                                     *)
(***************************************************************************)
RECURSIVE Normalize(_, _)
Normalize(sig, exp) ==
    IF sig = 0 THEN [finite |-> TRUE, sig |-> 0, exp |-> 0]
    ELSE IF TruncRem(sig, 10) = 0 THEN Normalize(TruncDiv(sig, 10), exp + 1)
    ELSE [finite |-> TRUE, sig |-> sig, exp |-> exp]

NotFinite == [finite |-> FALSE, sig |-> 0, exp |-> 0]

Min(a, b) == IF a < b THEN a ELSE b

\* number + number
NumAdd(x, y) ==
    LET e == Min(x.exp, y.exp)
    IN  Normalize(x.sig * Pow(10, x.exp - e) + y.sig * Pow(10, y.exp - e), e)

RECURSIVE Zeros(_)
Zeros(n) == IF n <= 0 THEN <<>> ELSE <<"0">> \o Zeros(n - 1)

\* String(number) of a finite number (ECMAScript Number::toString, radix 10)
NumberToString(x) ==
    LET digits == BigIntToString(Abs(x.sig))
        k == Len(digits)
        n == k + x.exp
        sign == IF x.sig < 0 THEN <<"-">> ELSE <<>>
        e == n - 1
        expText == <<"e">> \o (IF e < 0 THEN <<"-">> ELSE <<"+">>) \o BigIntToString(Abs(e))
    IN  IF x.sig = 0 THEN <<"0">>
        ELSE IF k <= n /\ n <= 21 THEN sign \o digits \o Zeros(n - k)
        ELSE IF 0 < n /\ n <= 21
             THEN sign \o SubSeq(digits, 1, n) \o <<".">> \o SubSeq(digits, n + 1, k)
        ELSE IF -6 < n /\ n <= 0 THEN sign \o <<"0", ".">> \o Zeros(-n) \o digits
        ELSE IF k = 1 THEN sign \o digits \o expText
        ELSE sign \o <<digits[1]>> \o <<".">> \o SubSeq(digits, 2, k) \o expText

\* Number(text) of an exponent text such as "-7" or "+21"
NumberOfExponent(s) ==
    IF s[1] = "-" THEN -BigIntOf(Tail(s))
    ELSE IF s[1] = "+" THEN BigIntOf(Tail(s))
    ELSE BigIntOf(s)

(***************************************************************************)
(* lib/index.ts: Money arithmetic                                          *)
(***************************************************************************)
\* the guard comparing the decimal digits instead of the currency codes
assertSameCurrency_ByDecimals(a, b) == a.decimalDigits = b.decimalDigits

\* Money.#assertSameCurrency
assertSameCurrency(a, b) == a.currency = b.currency

add(reg, a, b) ==
    IF ~assertSameCurrency(a, b) THEN Threw("CurrencyMismatchError")
    ELSE createFromSubunits(reg, a.subunits + b.subunits, a.currency, a.decimalDigits)

\* subtract taking this from the other
subtract_Swapped(reg, a, b) ==
    IF ~assertSameCurrency(a, b) THEN Threw("CurrencyMismatchError")
    ELSE createFromSubunits(reg, b.subunits - a.subunits, a.currency, a.decimalDigits)

subtract(reg, a, b) ==
    IF ~assertSameCurrency(a, b) THEN Threw("CurrencyMismatchError")
    ELSE createFromSubunits(reg, a.subunits - b.subunits, a.currency, a.decimalDigits)

\* parseFactor that leaves the sign of the base out of its value
parseFactor_Unsigned(factor) ==
    LET str == NumberToString(factor)
        es == {i \in 1..Len(str) : str[i] = "e"}
        hasExp == es # {}
        ePos == CHOOSE i \in es : \A j \in es : i <= j
        base == IF hasExp THEN SubSeq(str, 1, ePos - 1) ELSE str
        exponent == IF hasExp THEN SubSeq(str, ePos + 1, Len(str)) ELSE <<>>
        baseMatch == MatchDecimal(base)
        baseValue == BigIntOf(baseMatch.whole \o baseMatch.frac)
        baseDecimals == Len(baseMatch.frac)
        exp == IF Len(exponent) > 0 THEN NumberOfExponent(exponent) ELSE 0
        netExp == exp - baseDecimals
    IN  IF ~baseMatch.ok THEN [ok |-> FALSE, value |-> 0, scale |-> 0]
        ELSE IF netExp >= 0
             THEN [ok |-> TRUE, value |-> baseValue * Pow(10, netExp), scale |-> 0]
        ELSE [ok |-> TRUE, value |-> baseValue, scale |-> -netExp]

\* Money.#parseFactor: String(factor), split at 'e', the base matched and read
parseFactor(factor) ==
    LET str == NumberToString(factor)
        es == {i \in 1..Len(str) : str[i] = "e"}
        hasExp == es # {}
        ePos == CHOOSE i \in es : \A j \in es : i <= j
        base == IF hasExp THEN SubSeq(str, 1, ePos - 1) ELSE str
        exponent == IF hasExp THEN SubSeq(str, ePos + 1, Len(str)) ELSE <<>>
        baseMatch == MatchDecimal(base)
        digits == BigIntOf(baseMatch.whole \o baseMatch.frac)
        baseValue == IF baseMatch.sign = "-" THEN -digits ELSE digits
        baseDecimals == Len(baseMatch.frac)
        exp == IF Len(exponent) > 0 THEN NumberOfExponent(exponent) ELSE 0
        netExp == exp - baseDecimals
    IN  IF ~baseMatch.ok THEN [ok |-> FALSE, value |-> 0, scale |-> 0]
        ELSE IF netExp >= 0
             THEN [ok |-> TRUE, value |-> baseValue * Pow(10, netExp), scale |-> 0]
        ELSE [ok |-> TRUE, value |-> baseValue, scale |-> -netExp]

\* roundedDivide with an exact half always rounded away from zero
roundedDivide_HalfAway(numerator, denominator) ==
    LET quotient == TruncDiv(numerator, denominator)
        remainder == TruncRem(numerator, denominator)
        halfDenominator == TruncDiv(denominator, 2)
        absRemainder == IF remainder < 0 THEN -remainder ELSE remainder
        away == IF numerator < 0 THEN quotient - 1 ELSE quotient + 1
    IN  IF denominator = 1 THEN numerator
        ELSE IF remainder = 0 THEN quotient
        ELSE IF absRemainder >= halfDenominator THEN away
        ELSE quotient

\* Money.#roundedDivide
roundedDivide(numerator, denominator) ==
    LET quotient == TruncDiv(numerator, denominator)
        remainder == TruncRem(numerator, denominator)
        halfDenominator == TruncDiv(denominator, 2)
        absRemainder == IF remainder < 0 THEN -remainder ELSE remainder
        away == IF numerator < 0 THEN quotient - 1 ELSE quotient + 1
    IN  IF denominator = 1 THEN numerator
        ELSE IF remainder = 0 THEN quotient
        ELSE IF absRemainder > halfDenominator THEN away
        ELSE IF absRemainder = halfDenominator
             THEN (IF TruncRem(quotient, 2) = 0 THEN quotient ELSE away)
        ELSE quotient

multiply(reg, m, factor) ==
    LET scaled(parsed) ==
            LET product == m.subunits * parsed.value
                divisor == Pow(10, parsed.scale)
                result == roundedDivide(product, divisor)
            IN  IF ~parsed.ok THEN Threw("TypeError")
                ELSE createFromSubunits(reg, result, m.currency, m.decimalDigits)
    IN  IF ~factor.finite THEN Threw("TypeError")
        ELSE scaled(parseFactor(factor))

\* number * integer; a factor of ten moves the exponent
RECURSIVE NumTimes(_, _)
NumTimes(x, n) ==
    IF n # 0 /\ n % 10 = 0 THEN NumTimes([x EXCEPT !.exp = @ + 1], n \div 10)
    ELSE Normalize(x.sig * n, x.exp)

\* Math.round(x): the nearest integer, a tie going toward +Infinity
MathRound(x) ==
    IF x.exp >= 0 THEN x.sig * Pow(10, x.exp)
    ELSE (2 * x.sig + Pow(10, -x.exp)) \div (2 * Pow(10, -x.exp))

\* proportions.reduce((sum, p) => sum + p, 0)
RECURSIVE reduceSum(_)
reduceSum(ps) ==
    IF Len(ps) = 0 THEN Normalize(0, 0)
    ELSE NumAdd(reduceSum(SubSeq(ps, 1, Len(ps) - 1)), ps[Len(ps)])

\* allocations.reduce((sum, a) => sum + a, 0n)
RECURSIVE reduceBigSum(_)
reduceBigSum(as) == IF Len(as) = 0 THEN 0 ELSE as[1] + reduceBigSum(Tail(as))

\* the first loop handing every subunit of the remainder to index 0
whilePositive_FirstOnly(st) ==
    IF st.remainder > 0
    THEN [allocations |-> [st.allocations EXCEPT ![1] = @ + st.remainder],
          remainder |-> 0,
          i |-> st.i + st.remainder]
    ELSE st

\* while (remainder > 0n) { allocations[i % length] += 1n; remainder -= 1n; i++ }
RECURSIVE whilePositive(_)
whilePositive(st) ==
    IF st.remainder > 0
    THEN whilePositive([allocations |->
                            [st.allocations EXCEPT ![(st.i % Len(st.allocations)) + 1] = @ + 1],
                        remainder |-> st.remainder - 1,
                        i |-> st.i + 1])
    ELSE st

\* the second loop left out: a negative remainder is dropped
whileNegative_Skipped(st) == st

\* while (remainder < 0n) { allocations[i % length] -= 1n; remainder += 1n; i++ }
RECURSIVE whileNegative(_)
whileNegative(st) ==
    IF st.remainder < 0
    THEN whileNegative([allocations |->
                            [st.allocations EXCEPT ![(st.i % Len(st.allocations)) + 1] = @ - 1],
                        remainder |-> st.remainder + 1,
                        i |-> st.i + 1])
    ELSE st

\* The sum of proportions scaled as the divisor of every base share
PROPORTION_SCALE == 1000000

\* the base allocations: truncating bigint division per proportion
baseAllocations(totalSubunits, proportions, total) ==
    [i \in 1..Len(proportions) |->
        TruncDiv(totalSubunits * MathRound(NumTimes(proportions[i], PROPORTION_SCALE)),
                 MathRound(NumTimes(total, PROPORTION_SCALE)))]

\* allocate without the check of the sum of the proportions
allocate_SumUnchecked(reg, m, proportions) ==
    LET total == reduceSum(proportions)
        totalSubunits == m.subunits
        base == baseAllocations(totalSubunits, proportions, total)
        distributed ==
            whileNegative(whilePositive([allocations |-> base,
                                         remainder |-> totalSubunits - reduceBigSum(base),
                                         i |-> 0]))
        shares == [i \in 1..Len(proportions) |->
                     createFromSubunits(reg, distributed.allocations[i],
                                        m.currency, m.decimalDigits)]
        failed == {i \in 1..Len(proportions) : shares[i].kind # "ok"}
    IN  IF Len(proportions) = 0 THEN Threw("TypeError")
        ELSE IF \E i \in 1..Len(proportions) :
                    ~proportions[i].finite \/ proportions[i].sig < 0
             THEN Threw("TypeError")
        ELSE IF MathRound(NumTimes(total, PROPORTION_SCALE)) = 0 THEN Threw("RangeError")
        ELSE IF failed # {} THEN shares[CHOOSE i \in failed : \A j \in failed : i <= j]
        ELSE Returned([i \in 1..Len(proportions) |-> shares[i].value])

\* Money.allocate
allocate(reg, m, proportions) ==
    LET total == reduceSum(proportions)
        totalSubunits == m.subunits
        base == baseAllocations(totalSubunits, proportions, total)
        distributed ==
            whileNegative(whilePositive([allocations |-> base,
                                         remainder |-> totalSubunits - reduceBigSum(base),
                                         i |-> 0]))
        shares == [i \in 1..Len(proportions) |->
                     createFromSubunits(reg, distributed.allocations[i],
                                        m.currency, m.decimalDigits)]
        failed == {i \in 1..Len(proportions) : shares[i].kind # "ok"}
    IN  IF Len(proportions) = 0 THEN Threw("TypeError")
        ELSE IF \E i \in 1..Len(proportions) :
                    ~proportions[i].finite \/ proportions[i].sig < 0
             THEN Threw("TypeError")
        ELSE IF total.sig <= 0 THEN Threw("TypeError")
        ELSE IF MathRound(NumTimes(total, PROPORTION_SCALE)) = 0 THEN Threw("RangeError")
        ELSE IF failed # {} THEN shares[CHOOSE i \in failed : \A j \in failed : i <= j]
        ELSE Returned([i \in 1..Len(proportions) |-> shares[i].value])

(***************************************************************************)
(* lib/index.ts: Money comparisons                                         *)
(***************************************************************************)
equalTo(a, b) ==
    IF ~assertSameCurrency(a, b) THEN Threw("CurrencyMismatchError")
    ELSE Returned(a.subunits = b.subunits)

greaterThan(a, b) ==
    IF ~assertSameCurrency(a, b) THEN Threw("CurrencyMismatchError")
    ELSE Returned(a.subunits > b.subunits)

lessThan(a, b) ==
    IF ~assertSameCurrency(a, b) THEN Threw("CurrencyMismatchError")
    ELSE Returned(a.subunits < b.subunits)

\* greaterThanOrEqual leaving the equal amounts out
greaterThanOrEqual_Strict(a, b) ==
    IF ~assertSameCurrency(a, b) THEN Threw("CurrencyMismatchError")
    ELSE Returned(a.subunits > b.subunits)

greaterThanOrEqual(a, b) ==
    IF ~assertSameCurrency(a, b) THEN Threw("CurrencyMismatchError")
    ELSE Returned(a.subunits >= b.subunits)

lessThanOrEqual(a, b) ==
    IF ~assertSameCurrency(a, b) THEN Threw("CurrencyMismatchError")
    ELSE Returned(a.subunits <= b.subunits)

\* Money.compare
compare(a, b) ==
    IF a.currency # b.currency THEN Threw("CurrencyMismatchError")
    ELSE IF a.subunits < b.subunits THEN Returned(-1)
    ELSE IF a.subunits > b.subunits THEN Returned(1)
    ELSE Returned(0)

isZero(m) == m.subunits = 0
isPositive(m) == m.subunits > 0
isNegative(m) == m.subunits < 0

(***************************************************************************)
(* lib/exchange-rate-service.ts.  The store is the Map from the key text   *)
(* to the entry; the timestamp of an entry is left out.  A source label is *)
(* <<label>>, and <<>> when it is undefined.                               *)
(***************************************************************************)
\* The precision of rate.toPrecision(15) and inverseRate.toPrecision(15)
TO_PRECISION == 15

\* The digits and sign of a number laid out by Number.prototype.toPrecision:
\* ds are the p significant digits and e the exponent of the first one
FormatPrecision(neg, ds, e, p) ==
    LET sign == IF neg THEN <<"-">> ELSE <<>>
        expText == <<"e">> \o (IF e < 0 THEN <<"-">> ELSE <<"+">>) \o BigIntToString(Abs(e))
    IN  IF e < -6 \/ e >= p
        THEN sign \o <<ds[1]>> \o (IF p > 1 THEN <<".">> \o SubSeq(ds, 2, p) ELSE <<>>)
                  \o expText
        ELSE IF e = p - 1 THEN sign \o ds
        ELSE IF e >= 0 THEN sign \o SubSeq(ds, 1, e + 1) \o <<".">> \o SubSeq(ds, e + 2, p)
        ELSE sign \o <<"0", ".">> \o Zeros(-(e + 1)) \o ds

\* number.toPrecision(p) of a finite number of at most p significant digits
toPrecision(x, p) ==
    LET digits == BigIntToString(Abs(x.sig))
    IN  IF ~x.finite THEN <<"N", "a", "N">>
        ELSE IF x.sig = 0 THEN FormatPrecision(FALSE, Zeros(p), 0, p)
        ELSE FormatPrecision(x.sig < 0, padEnd(digits, p), Len(digits) - 1 + x.exp, p)

\* Number(text): a decimal text is read as its value, any other text is NaN
NumberOf(text) ==
    LET read(match) ==
            LET lastNonZero == {i \in 1..Len(match.frac) : match.frac[i] # "0"}
                fracLen == IF lastNonZero = {} THEN 0
                           ELSE CHOOSE i \in lastNonZero : \A j \in lastNonZero : j <= i
                digits == BigIntOf(match.whole \o SubSeq(match.frac, 1, fracLen))
            IN  IF ~match.ok THEN NotFinite
                ELSE Normalize(IF match.sign = "-" THEN -digits ELSE digits, -fracLen)
    IN  read(MatchDecimal(text))

\* The first n digits of the long division rem / den, and what is left
RECURSIVE DivisionDigits(_, _, _)
DivisionDigits(rem, den, n) ==
    IF n = 0 THEN [digits |-> <<>>, rem |-> rem]
    ELSE LET rest == DivisionDigits((10 * rem) % den, den, n - 1)
         IN  [digits |-> <<DigitChars[((10 * rem) \div den) + 1]>> \o rest.digits,
              rem |-> rest.rem]

\* How many digits after the point come before the first non-zero digit of rem / den
RECURSIVE LeadingZeros(_, _)
LeadingZeros(rem, den) ==
    IF 10 * rem >= den THEN 0 ELSE 1 + LeadingZeros(10 * rem, den)

\* A text of digits plus one in its last place; all nines carry into a new digit
RECURSIVE Increment(_)
Increment(ds) ==
    IF Len(ds) = 0 THEN <<"1">>
    ELSE IF ds[Len(ds)] = "9" THEN Increment(SubSeq(ds, 1, Len(ds) - 1)) \o <<"0">>
    ELSE SubSeq(ds, 1, Len(ds) - 1) \o <<DigitChars[DigitValue(ds[Len(ds)]) + 2]>>

\* (1 / x).toPrecision(p) of a finite x: the quotient rounded to p digits
inversePrecision(x, p) ==
    LET den == Abs(x.sig)
        zeros == IF den = 1 THEN 0 ELSE LeadingZeros(1, den)
        \* 1 / den = 0.000ddd..., the first digit d standing at 10^-(zeros + 1)
        start == IF den = 1 THEN 1 ELSE Pow(10, zeros) % den
        long == IF den = 1 THEN [digits |-> <<"1">> \o Zeros(p), rem |-> 0]
                ELSE DivisionDigits(start, den, p + 1)
        kept == SubSeq(long.digits, 1, p)
        up == DigitValue(long.digits[p + 1]) >= 5
        rounded == IF up THEN Increment(kept) ELSE kept
        carried == Len(rounded) > p
        e == (IF den = 1 THEN 0 ELSE -(zeros + 1)) - x.exp + (IF carried THEN 1 ELSE 0)
    IN  IF ~x.finite THEN <<"N", "a", "N">>
        ELSE IF x.sig = 0 THEN <<"I", "n", "f", "i", "n", "i", "t", "y">>
        ELSE FormatPrecision(x.sig < 0, SubSeq(rounded, 1, p), e, p)

\* ExchangeRateService.#key
key(from, to) == from \o ":" \o to

\* Map.prototype.set
MapSet(map, k, v) == [x \in DOMAIN map \cup {k} |-> IF x = k THEN v ELSE map[x]]

\* setRate keeping the entry the pair already has
setRate_KeepFirst(rs, from, to, rate, isNumber, source, autoInverse) ==
    LET rateStr == IF isNumber THEN toPrecision(rate, TO_PRECISION) ELSE rate
    IN  IF key(from, to) \in DOMAIN rs THEN rs
        ELSE MapSet(rs, key(from, to),
                    [from |-> from, to |-> to, rate |-> rateStr, source |-> source])

\* ExchangeRateService.setRate; rate is a text, or a number when isNumber
setRate(rs, from, to, rate, isNumber, source, autoInverse) ==
    LET rateStr == IF isNumber THEN toPrecision(rate, TO_PRECISION) ELSE rate
        stored == MapSet(rs, key(from, to),
                         [from |-> from, to |-> to, rate |-> rateStr, source |-> source])
        inverseKey == key(to, from)
        inverseRate == inversePrecision(NumberOf(rateStr), TO_PRECISION)
    IN  IF autoInverse /\ inverseKey \notin DOMAIN stored
        THEN MapSet(stored, inverseKey,
                    [from |-> to, to |-> from, rate |-> inverseRate,
                     source |-> IF Len(source) > 0 /\ source[1] # ""
                                THEN <<source[1] \o " (inverse)">>
                                ELSE <<"(inverse)">>])
        ELSE stored

\* ExchangeRateService.getRate
getRate(rs, from, to) ==
    IF from = to
    THEN [found |-> TRUE, from |-> from, to |-> to, rate |-> <<"1">>,
          source |-> <<"(identity)">>]
    ELSE IF key(from, to) \in DOMAIN rs
         THEN [found |-> TRUE, from |-> rs[key(from, to)].from, to |-> rs[key(from, to)].to,
               rate |-> rs[key(from, to)].rate, source |-> rs[key(from, to)].source]
    ELSE [found |-> FALSE, from |-> from, to |-> to, rate |-> <<>>, source |-> <<>>]

\* ExchangeRateService.hasRate
hasRate(rs, from, to) == from = to \/ key(from, to) \in DOMAIN rs

\* ExchangeRateService.removeRate: Map.prototype.delete tells whether the key was there
removeRate(rs, from, to) ==
    [rates |-> [k \in DOMAIN rs \ {key(from, to)} |-> rs[k]],
     result |-> key(from, to) \in DOMAIN rs]

\* ExchangeRateService.clear
clear(rs) == <<>>

\* number * number
NumMul(x, y) ==
    IF x.finite /\ y.finite THEN Normalize(x.sig * y.sig, x.exp + y.exp) ELSE NotFinite

\* Math.abs(1 - x)
AbsOneMinus(x) ==
    IF ~x.finite THEN NotFinite
    ELSE LET d == NumAdd(Normalize(1, 0), Normalize(-x.sig, x.exp))
         IN  Normalize(Abs(d.sig), d.exp)

\* getRatePair looking at the stored entries only
getRatePair_StoredOnly(rs, currencyA, currencyB) ==
    LET forward == getRate(rs, currencyA, currencyB)
        reverse == getRate(rs, currencyB, currencyA)
    IN  IF key(currencyA, currencyB) \notin DOMAIN rs \/ key(currencyB, currencyA) \notin DOMAIN rs
        THEN [found |-> FALSE, forward |-> forward, reverse |-> reverse,
              discrepancy |-> NotFinite]
        ELSE [found |-> TRUE, forward |-> forward, reverse |-> reverse,
              discrepancy |-> Normalize(0, 0)]

\* ExchangeRateService.getRatePair; the product is the decimal product of the
\* two rates, without the rounding of the last binary digit
getRatePair(rs, currencyA, currencyB) ==
    LET forward == getRate(rs, currencyA, currencyB)
        reverse == getRate(rs, currencyB, currencyA)
        product == NumMul(NumberOf(forward.rate), NumberOf(reverse.rate))
    IN  IF ~forward.found \/ ~reverse.found
        THEN [found |-> FALSE, forward |-> forward, reverse |-> reverse,
              discrepancy |-> NotFinite]
        ELSE [found |-> TRUE, forward |-> forward, reverse |-> reverse,
              discrepancy |-> AbsOneMinus(product)]

\* The order localeCompare gives the currency codes: the alphabetical one
CodeOrder == <<"EUR", "GBP", "JPY", "USD">>

\* a.localeCompare(b) of two currency codes
localeCompare(a, b) ==
    LET rank(c) == CHOOSE i \in 1..Len(CodeOrder) : CodeOrder[i] = c
    IN  IF rank(a) < rank(b) THEN -1 ELSE IF rank(a) > rank(b) THEN 1 ELSE 0

\* The comparator of getAllRates (byFrom) and the one of getRatesFrom
compareRates(a, b, byFrom) ==
    LET fromCompare == localeCompare(a.from, b.from)
    IN  IF byFrom /\ fromCompare # 0 THEN fromCompare ELSE localeCompare(a.to, b.to)

\* Array.prototype.sort of the entries S under the comparator
RECURSIVE sort(_, _)
sort(S, byFrom) ==
    IF S = {} THEN <<>>
    ELSE LET first == CHOOSE a \in S : \A b \in S : compareRates(a, b, byFrom) <= 0
         IN  <<first>> \o sort(S \ {first}, byFrom)

\* ExchangeRateService.getRatesFrom
getRatesFrom(rs, base) ==
    sort({rs[k] : k \in {x \in DOMAIN rs : rs[x].from = base}}, FALSE)

\* ExchangeRateService.getAllRates
getAllRates(rs) == sort({rs[k] : k \in DOMAIN rs}, TRUE)

\* String.prototype.split(':') of a key given as its pieces, a piece being
\* ":" or a text without a colon
RECURSIVE split(_)
split(k) ==
    IF Len(k) = 0 THEN <<"">>
    ELSE LET rest == split(Tail(k))
         IN  IF k[1] = ":" THEN <<"">> \o rest
             ELSE <<k[1] \o rest[1]>> \o Tail(rest)

\* loadRates leaving the auto-inverse of setRate on
RECURSIVE loadRates_AutoInverse(_, _, _)
loadRates_AutoInverse(rs, entries, source) ==
    IF Len(entries) = 0 THEN rs
    ELSE LET parts == split(entries[1].key)
             rate == IF entries[1].isNumber THEN entries[1].number ELSE entries[1].text
             loaded == IF parts[1] # "" /\ Len(parts) >= 2 /\ parts[2] # ""
                       THEN setRate(rs, parts[1], parts[2], rate, entries[1].isNumber,
                                    source, TRUE)
                       ELSE rs
         IN  loadRates_AutoInverse(loaded, Tail(entries), source)

\* ExchangeRateService.loadRates; entries are the map's entries in order, each
\* with its key, and its rate as a number or as a text
RECURSIVE loadRates(_, _, _)
loadRates(rs, entries, source) ==
    IF Len(entries) = 0 THEN rs
    ELSE LET parts == split(entries[1].key)
             rate == IF entries[1].isNumber THEN entries[1].number ELSE entries[1].text
             loaded == IF parts[1] # "" /\ Len(parts) >= 2 /\ parts[2] # ""
                       THEN setRate(rs, parts[1], parts[2], rate, entries[1].isNumber,
                                    source, FALSE)
                       ELSE rs
         IN  loadRates(loaded, Tail(entries), source)

(***************************************************************************)
(* lib/money-converter.ts                                                  *)
(***************************************************************************)
\* The number of decimal places the rate is scaled by.  The source scales by
\* RATE_PRECISION = 15n; 10^15 is beyond the integers TLC computes with, so
\* the same arithmetic is checked at this smaller scale.  The divisor stays
\* a power of ten of at least 10, as it is in the source.
RatePrecision == 2

\* convert with the final rounding replaced by BigInt division
bankersRound_Truncated(numerator, denominator) == TruncDiv(numerator, denominator)

\* bankersRound with an exact half always rounded away from zero
bankersRound_HalfAway(numerator, denominator) ==
    LET quotient == TruncDiv(numerator, denominator)
        remainder == TruncRem(numerator, denominator)
        halfDenominator == TruncDiv(denominator, 2)
        absRemainder == IF remainder < 0 THEN -remainder ELSE remainder
        stepped == IF numerator < 0 THEN quotient - 1 ELSE quotient + 1
    IN  IF denominator = 1 THEN numerator
        ELSE IF remainder = 0 THEN quotient
        ELSE IF absRemainder >= halfDenominator THEN stepped
        ELSE quotient

\* MoneyConverter.#bankersRound
bankersRound(numerator, denominator) ==
    LET quotient == TruncDiv(numerator, denominator)
        remainder == TruncRem(numerator, denominator)
        halfDenominator == TruncDiv(denominator, 2)
        absRemainder == IF remainder < 0 THEN -remainder ELSE remainder
        stepped == IF numerator < 0 THEN quotient - 1 ELSE quotient + 1
    IN  IF denominator = 1 THEN numerator
        ELSE IF remainder = 0 THEN quotient
        ELSE IF absRemainder > halfDenominator THEN stepped
        ELSE IF absRemainder = halfDenominator
             THEN IF TruncRem(quotient, 2) = 0 THEN quotient ELSE stepped
        ELSE quotient

\* convert without the return of the value itself for its own currency
convert_NoShortCircuit(reg, rs, money, targetCurrency) ==
    LET currencyDef == getCurrency(reg, targetCurrency)
        rate == getRate(rs, money.currency, targetCurrency)
        sourceCurrencyDef == getCurrency(reg, money.currency)
        product == toSubunits(money)
                       * MathRound(NumTimes(NumberOf(rate.rate), Pow(10, RatePrecision)))
                       * Pow(10, currencyDef.decimalDigits)
        divisor == Pow(10, RatePrecision) * Pow(10, sourceCurrencyDef.decimalDigits)
    IN  IF ~currencyDef.found THEN Threw("CurrencyUnknownError")
        ELSE IF ~rate.found THEN Threw("ExchangeRateError")
        ELSE IF ~sourceCurrencyDef.found THEN Threw("TypeError")
        ELSE IF ~NumberOf(rate.rate).finite THEN Threw("RangeError")
        ELSE fromSubunits(reg, bankersRound(product, divisor), targetCurrency)

\* convert looking the rate up before the target currency
convert_RateFirst(reg, rs, money, targetCurrency) ==
    LET currencyDef == getCurrency(reg, targetCurrency)
        rate == getRate(rs, money.currency, targetCurrency)
        sourceCurrencyDef == getCurrency(reg, money.currency)
        product == toSubunits(money)
                       * MathRound(NumTimes(NumberOf(rate.rate), Pow(10, RatePrecision)))
                       * Pow(10, currencyDef.decimalDigits)
        divisor == Pow(10, RatePrecision) * Pow(10, sourceCurrencyDef.decimalDigits)
    IN  IF money.currency = targetCurrency THEN Returned(money)
        ELSE IF ~rate.found THEN Threw("ExchangeRateError")
        ELSE IF ~currencyDef.found THEN Threw("CurrencyUnknownError")
        ELSE IF ~sourceCurrencyDef.found THEN Threw("TypeError")
        ELSE IF ~NumberOf(rate.rate).finite THEN Threw("RangeError")
        ELSE fromSubunits(reg, bankersRound(product, divisor), targetCurrency)

\* MoneyConverter.convert
convert(reg, rs, money, targetCurrency) ==
    LET converted(currencyDef, rate, sourceCurrencyDef, rateValue) ==
            LET sourceSubunits == toSubunits(money)
                sourceMultiplier == Pow(10, sourceCurrencyDef.decimalDigits)
                targetMultiplier == Pow(10, currencyDef.decimalDigits)
                rateMultiplier == Pow(10, RatePrecision)
                rateBigInt == MathRound(NumTimes(rateValue, rateMultiplier))
                product == sourceSubunits * rateBigInt * targetMultiplier
                divisor == rateMultiplier * sourceMultiplier
                targetSubunits == bankersRound(product, divisor)
            IN  IF money.currency = targetCurrency THEN Returned(money)
                ELSE IF ~currencyDef.found THEN Threw("CurrencyUnknownError")
                ELSE IF ~rate.found THEN Threw("ExchangeRateError")
                \* reading decimalDigits of undefined
                ELSE IF ~sourceCurrencyDef.found THEN Threw("TypeError")
                \* BigInt(NaN) and BigInt(Infinity)
                ELSE IF ~rateValue.finite THEN Threw("RangeError")
                ELSE fromSubunits(reg, targetSubunits, targetCurrency)
        atRate(rate) == converted(getCurrency(reg, targetCurrency), rate,
                                  getCurrency(reg, money.currency), NumberOf(rate.rate))
    IN  atRate(getRate(rs, money.currency, targetCurrency))

\* return aConverted.add(bConverted), a conversion that threw ending the call
addConverted(reg, aConverted, bConverted) ==
    IF aConverted.kind # "ok" THEN aConverted
    ELSE IF bConverted.kind # "ok" THEN bConverted
    ELSE add(reg, aConverted.value, bConverted.value)

\* MoneyConverter.add with the second amount left as it is
MoneyConverter_add_SecondUnconverted(reg, rs, a, b, resultCurrency) ==
    addConverted(reg, convert(reg, rs, a, resultCurrency), Returned(b))

\* MoneyConverter.add
MoneyConverter_add(reg, rs, a, b, resultCurrency) ==
    addConverted(reg, convert(reg, rs, a, resultCurrency),
                 convert(reg, rs, b, resultCurrency))

\* return aConverted.subtract(bConverted), a conversion that threw ending the call
subtractConverted(reg, aConverted, bConverted) ==
    IF aConverted.kind # "ok" THEN aConverted
    ELSE IF bConverted.kind # "ok" THEN bConverted
    ELSE subtract(reg, aConverted.value, bConverted.value)

\* MoneyConverter.subtract
MoneyConverter_subtract(reg, rs, a, b, resultCurrency) ==
    subtractConverted(reg, convert(reg, rs, a, resultCurrency),
                      convert(reg, rs, b, resultCurrency))

RECURSIVE sumLoop(_, _, _, _, _)
RECURSIVE sumConverted(_, _, _, _, _, _)

\* let total = ...: the call ends when making the total threw, else the loop goes on
sumTotal(reg, rs, total, amounts, targetCurrency) ==
    IF total.kind # "ok" THEN total
    ELSE sumLoop(reg, rs, total.value, amounts, targetCurrency)

\* total = total.add(converted), a conversion that threw ending the call
sumConverted(reg, rs, total, converted, amounts, targetCurrency) ==
    IF converted.kind # "ok" THEN converted
    ELSE sumTotal(reg, rs, add(reg, total, converted.value), amounts, targetCurrency)

\* for (const amount of amounts) { const converted = this.convert(amount, targetCurrency) ... }
sumLoop(reg, rs, total, amounts, targetCurrency) ==
    IF Len(amounts) = 0 THEN Returned(total)
    ELSE sumConverted(reg, rs, total, convert(reg, rs, amounts[1], targetCurrency),
                      Tail(amounts), targetCurrency)

\* MoneyConverter.sum
MoneyConverter_sum(reg, rs, amounts, targetCurrency) ==
    sumTotal(reg, rs, zero(reg, targetCurrency), amounts, targetCurrency)

\* toNumber(): Number(this.amount)
toNumber(m) == NumberOf(amount(m))

\* MoneyConverter.percentageOf.  (x / y) * 100 is NaN or an infinity when y
\* is 0; otherwise it is kept as the fraction numerator / denominator that
\* the result is the nearest double of
MoneyConverter_percentageOf(reg, rs, part, whole) ==
    LET percent(x, y) ==
            LET e == Min(x.exp, y.exp)
            IN  IF y.sig = 0 THEN [finite |-> FALSE, numerator |-> 0, denominator |-> 0]
                ELSE [finite |-> TRUE,
                      numerator |-> 100 * x.sig * Pow(10, x.exp - e),
                      denominator |-> y.sig * Pow(10, y.exp - e)]
        ofConverted(partConverted) ==
            IF partConverted.kind # "ok" THEN partConverted
            ELSE Returned(percent(toNumber(partConverted.value), toNumber(whole)))
    IN  ofConverted(convert(reg, rs, part, whole.currency))

\* MoneyConverter.compare
MoneyConverter_compare(reg, rs, a, b) ==
    LET against(bConverted) ==
            IF bConverted.kind # "ok" THEN bConverted
            ELSE compare(a, bConverted.value)
    IN  against(convert(reg, rs, b, a.currency))

(***************************************************************************)
(* The registry and the Money instances as a state machine.                *)
(***************************************************************************)
\* The part of currencymap.json the model keeps: loaded when the module is imported
StockCurrencyMap ==
    <<[code |-> "USD", decimal_digits |-> 2], [code |-> "JPY", decimal_digits |-> 0]>>

\* The currency maps a client loads
CurrencyMaps == {StockCurrencyMap}

\* The definitions a client registers: USD also without decimal digits
RegisteredDefinitions ==
    {[code |-> "USD", decimalDigits |-> 2], [code |-> "USD", decimalDigits |-> 0],
     [code |-> "JPY", decimalDigits |-> 0]}

\* The amounts a client constructs values from
ConstructedAmounts ==
    {<<"1">>, <<"-", "0", ".", "0", "1">>, <<"x">>}

\* The subunits of the values a client makes and keeps: what the registry
\* does to a value does not depend on how much it holds
HeldSubunits == {-1, 0, 1}

\* The factors and the proportions a client passes
MultipliedFactors == {Normalize(-1, 0), Normalize(5, -1)}
AllocatedProportions == {<<Normalize(1, 0), Normalize(1, 0)>>}

\* The values a call made: those of the array allocate returns, or the one returned
Made(c, r) ==
    IF r.kind # "ok" \/ c.op \in {"import", "registerCurrency", "loadCurrencyMap",
                                  "clearCurrencies"}
    THEN {}
    ELSE IF c.op = "allocate" THEN {r.value[i] : i \in DOMAIN r.value}
    ELSE {r.value}

\* The client keeps the values a call returned, within the model's bounds
Keeps(c, r) ==
    /\ \A m \in Made(c, r) : m.subunits \in HeldSubunits
    /\ Cardinality(monies \cup Made(c, r)) <= MaxMonies
    /\ monies' = monies \cup Made(c, r)

Init ==
    /\ registry = loadCurrencyMap(clearCurrencies(<<>>), StockCurrencyMap)
    /\ monies = {}
    /\ rates = <<>>
    /\ call = [op |-> "import"]
    /\ ret = [kind |-> "ok"]

RegisterCurrency ==
    \E def \in RegisteredDefinitions :
        /\ registry' = registerCurrency(registry, def.code, def.decimalDigits)
        /\ call' = [op |-> "registerCurrency", currency |-> def.code,
                    decimalDigits |-> def.decimalDigits]
        /\ ret' = [kind |-> "ok"]
        /\ UNCHANGED <<monies, rates>>

LoadCurrencyMap ==
    \E map \in CurrencyMaps :
        /\ registry' = loadCurrencyMap(registry, map)
        /\ call' = [op |-> "loadCurrencyMap", map |-> map]
        /\ ret' = [kind |-> "ok"]
        /\ UNCHANGED <<monies, rates>>

ClearCurrencies ==
    /\ registry' = clearCurrencies(registry)
    /\ call' = [op |-> "clearCurrencies"]
    /\ ret' = [kind |-> "ok"]
    /\ UNCHANGED <<monies, rates>>

ConstructMoney ==
    \E code \in Codes, text \in ConstructedAmounts :
        /\ call' = [op |-> "new Money", currency |-> code, amount |-> text]
        /\ ret' = NewMoney(registry, code, text)
        /\ Keeps(call', ret')
        /\ UNCHANGED <<registry, rates>>

MoneyFromSubunits ==
    \E code \in Codes, s \in HeldSubunits :
        /\ call' = [op |-> "fromSubunits", currency |-> code, subunits |-> s]
        /\ ret' = fromSubunits(registry, s, code)
        /\ Keeps(call', ret')
        /\ UNCHANGED <<registry, rates>>

MoneyFromObject ==
    \E obj \in {toJSON(m) : m \in monies} :
        /\ call' = [op |-> "fromObject", currency |-> obj.currency, amount |-> obj.amount]
        /\ ret' = fromObject(registry, obj)
        /\ Keeps(call', ret')
        /\ UNCHANGED <<registry, rates>>

MoneyZero ==
    \E code \in Codes :
        /\ call' = [op |-> "zero", currency |-> code]
        /\ ret' = zero(registry, code)
        /\ Keeps(call', ret')
        /\ UNCHANGED <<registry, rates>>

Add ==
    \E a \in monies, b \in monies :
        /\ call' = [op |-> "add", a |-> a, b |-> b]
        /\ ret' = add(registry, a, b)
        /\ Keeps(call', ret')
        /\ UNCHANGED <<registry, rates>>

Subtract ==
    \E a \in monies, b \in monies :
        /\ call' = [op |-> "subtract", a |-> a, b |-> b]
        /\ ret' = subtract(registry, a, b)
        /\ Keeps(call', ret')
        /\ UNCHANGED <<registry, rates>>

MultiplyMoney ==
    \E a \in monies, factor \in MultipliedFactors :
        /\ call' = [op |-> "multiply", a |-> a, factor |-> factor]
        /\ ret' = multiply(registry, a, factor)
        /\ Keeps(call', ret')
        /\ UNCHANGED <<registry, rates>>

AllocateMoney ==
    \E a \in monies, proportions \in AllocatedProportions :
        /\ call' = [op |-> "allocate", a |-> a, proportions |-> proportions]
        /\ ret' = allocate(registry, a, proportions)
        /\ Keeps(call', ret')
        /\ UNCHANGED <<registry, rates>>

Next ==
    \/ RegisterCurrency
    \/ LoadCurrencyMap
    \/ ClearCurrencies
    \/ ConstructMoney
    \/ MoneyFromSubunits
    \/ MoneyFromObject
    \/ MoneyZero
    \/ Add
    \/ Subtract
    \/ MultiplyMoney
    \/ AllocateMoney

Spec == Init /\ [][Next]_vars

\* The calls that construct a value for a named currency
Constructions == {"new Money", "fromSubunits", "fromObject", "zero"}

\* C9 as stated: no value exists for a currency that is not registered
C9_NoValueOfUnregisteredCurrency ==
    \A m \in monies : m.currency \in DOMAIN registry

\* C9: a value is only ever made for a currency that is registered when it
\* is made, with that currency's decimal digits; constructing one (by the
\* constructor, fromSubunits, fromObject or zero) for a currency that is not
\* registered fails with the unknown-currency kind and makes no value.
C9_RegisteredWhenMade ==
    [][/\ \A m \in Made(call', ret') \cup (monies' \ monies) :
             /\ m.currency \in DOMAIN registry
             /\ m.decimalDigits = registry[m.currency]
       /\ (call'.op \in Constructions /\ call'.currency \notin DOMAIN registry) =>
             /\ ret' = Threw("CurrencyUnknownError")
             /\ monies' = monies]_vars

\* A construction has failed for a currency that was cleared from the
\* registry while a value of that currency is still held
C9_Witness ==
    /\ call.op \in Constructions
    /\ call.currency \notin DOMAIN registry
    /\ ret = Threw("CurrencyUnknownError")
    /\ \E m \in monies : m.currency = call.currency

\* C27: whatever registerCurrency calls, re-registrations with another
\* decimal count included, come between constructions and operations,
\* a.add(b) of two values of one registered currency has the subunits
\* a.toSubunits() + b.toSubunits() and an amount that is the decimal sum of
\* a.amount and b.amount, and fromSubunits(a.toSubunits(), currency) equals a
C27_ExactAcrossRegistryChanges ==
    /\ (call.op = "add" /\ call.a.currency = call.b.currency
            /\ call.a.currency \in DOMAIN registry) =>
          /\ ret.kind = "ok"
          /\ toSubunits(ret.value) = toSubunits(call.a) + toSubunits(call.b)
          /\ NumberOf(amount(ret.value)) =
                 NumAdd(NumberOf(amount(call.a)), NumberOf(amount(call.b)))
    /\ \A a \in monies :
          a.currency \in DOMAIN registry =>
              LET made == fromSubunits(registry, toSubunits(a), a.currency)
              IN  made.kind = "ok" /\ equalTo(made.value, a) = Returned(TRUE)


(***************************************************************************)
(* Specifications of single operations: the initial state holds a call     *)
(* that has not run yet, and the one action runs it.                       *)
(***************************************************************************)
\* The registry with USD at d decimal digits and JPY at none
RegistryOf(d) == [c \in Codes |-> IF c = "USD" THEN d ELSE 0]

\* A Money of s subunits made under the current registry
MoneyOf(reg, code, s) == fromSubunits(reg, s, code).value

\* q is the integer nearest to n / d, an exact half going to the even neighbour
IsNearestTiesEven(q, n, d) ==
    LET dist == Abs(n - q * d)
    IN  /\ dist <= d - dist
        /\ (dist = d - dist) => (q % 2 = 0)

(***************************************************************************)
(* roundedDivide on its own                                                *)
(***************************************************************************)
MaxNumerator == 40
MaxDenominator == 12

InitRound ==
    /\ registry = RegistryOf(2)
    /\ monies = {}
    /\ rates = <<>>
    /\ call \in {[op |-> op, numerator |-> n, denominator |-> d] :
                    op \in {"roundedDivide", "bankersRound"},
                    n \in -MaxNumerator..MaxNumerator, d \in 1..MaxDenominator}
    /\ ret = Pending

RoundedDivide ==
    /\ ret = Pending
    /\ call.op = "roundedDivide"
    /\ ret' = Returned(roundedDivide(call.numerator, call.denominator))
    /\ UNCHANGED <<registry, monies, rates, call>>

BankersRound ==
    /\ ret = Pending
    /\ call.op = "bankersRound"
    /\ ret' = Returned(bankersRound(call.numerator, call.denominator))
    /\ UNCHANGED <<registry, monies, rates, call>>

NextRound ==
    \/ RoundedDivide
    \/ BankersRound

SpecRound == InitRound /\ [][NextRound]_vars

RoundHalfEvenEvenDenominator ==
    (call.op = "roundedDivide" /\ ret.kind = "ok"
        /\ (call.denominator = 1 \/ call.denominator % 2 = 0))
        => IsNearestTiesEven(ret.value, call.numerator, call.denominator)

\* C24: the rounding of multiply (roundedDivide) and the rounding of currency
\* conversion (bankersRound) return the same result for every integer
\* numerator and every denominator > 0
C24_SingleRoundingPrimitive ==
    (ret # Pending) =>
        /\ ret.kind = "ok"
        /\ call.op = "roundedDivide" =>
               ret.value = bankersRound(call.numerator, call.denominator)
        /\ call.op = "bankersRound" =>
               ret.value = roundedDivide(call.numerator, call.denominator)

\* bankersRound was given 4 / 3, whose remainder equals the halved denominator,
\* and returned 2, as roundedDivide does
C24_Witness ==
    /\ call = [op |-> "bankersRound", numerator |-> 4, denominator |-> 3]
    /\ ret = Returned(2)
    /\ roundedDivide(4, 3) = 2

(***************************************************************************)
(* multiply on its own                                                     *)
(***************************************************************************)
MaxFactorSig == 20     \* factor significands range over -MaxFactorSig..MaxFactorSig
MaxFactorExp == 8      \* factor exponents range over -MaxFactorExp..1

\* The six factors of the rounding-bias test (test/money.test.ts 464-525)
BiasSigs == {545, 555, 565, 575, 585, 595}

Factors ==
    {Normalize(sig, exp) : sig \in -MaxFactorSig..MaxFactorSig, exp \in -MaxFactorExp..1}
        \cup {Normalize(sig, -3) : sig \in BiasSigs}

MultiplySubunits == (-MaxSub..MaxSub) \cup {-100, 100}

InitMultiply ==
    /\ \E d \in 0..MaxDecimals : registry = RegistryOf(d)
    /\ monies = {}
    /\ rates = <<>>
    /\ call \in {[op |-> "multiply", m |-> MoneyOf(registry, "USD", s), factor |-> f] :
                    s \in MultiplySubunits, f \in Factors}
    /\ ret = Pending

Multiply ==
    /\ ret = Pending
    /\ call.op = "multiply"
    /\ ret' = multiply(registry, call.m, call.factor)
    /\ UNCHANGED <<registry, monies, rates, call>>

SpecMultiply == InitMultiply /\ [][Multiply]_vars

\* The factor as the exact fraction N / 10^k
FactorN(f) == IF f.exp >= 0 THEN f.sig * Pow(10, f.exp) ELSE f.sig
FactorK(f) == IF f.exp >= 0 THEN 0 ELSE -f.exp

One == Normalize(1, 0)
Zero == Normalize(0, 0)

\* C3: multiply returns a value of the same currency whose subunits are the
\* integer nearest to s*N/10^k, an exact half going to the even neighbour;
\* multiply(1) returns an equal value and multiply(0) returns zero.
C3_MultiplyRoundsOnce ==
    (call.op = "multiply" /\ ret # Pending) =>
        /\ ret.kind = "ok"
        /\ ret.value.currency = call.m.currency
        /\ IsNearestTiesEven(ret.value.subunits,
                             call.m.subunits * FactorN(call.factor),
                             Pow(10, FactorK(call.factor)))
        /\ (call.factor = One) => (equalTo(ret.value, call.m) = Returned(TRUE))
        /\ (call.factor = Zero) => isZero(ret.value)

\* an exact half of a negative product was rounded to the even neighbour,
\* away from the truncated quotient
C3_Witness ==
    /\ call.op = "multiply" /\ ret.kind = "ok"
    /\ call.m.subunits * FactorN(call.factor) < 0
    /\ FactorK(call.factor) >= 2
    /\ 2 * Abs(call.m.subunits * FactorN(call.factor)
                 - ret.value.subunits * Pow(10, FactorK(call.factor)))
          = Pow(10, FactorK(call.factor))
    /\ ret.value.subunits # TruncDiv(call.m.subunits * FactorN(call.factor),
                                     Pow(10, FactorK(call.factor)))

\* The expected subunits of 1.00 times 0.545 ... 0.595 (test/money.test.ts 464-525)
BiasExpected == [s \in BiasSigs |->
    CASE s = 545 -> 54 [] s = 555 -> 56 [] s = 565 -> 56
      [] s = 575 -> 58 [] s = 585 -> 58 [] s = 595 -> 60]

RECURSIVE SumOver(_, _)
SumOver(f, S) ==
    IF S = {} THEN 0
    ELSE LET x == CHOOSE y \in S : TRUE IN f[x] + SumOver(f, S \ {x})

\* C4: 1.00 (and -1.00) of a 2-decimal currency times each of the six factors
\* gives 0.54, 0.56, 0.56, 0.58, 0.58, 0.60 (and their negations); the six
\* results sum to 3.42, which is the exact sum of the six products.
C4_UnbiasedRounding ==
    /\ (/\ call.op = "multiply" /\ ret # Pending
        /\ call.m.decimalDigits = 2
        /\ call.m.subunits \in {100, -100}
        /\ call.factor.exp = -3 /\ call.factor.sig \in BiasSigs)
            => /\ ret.kind = "ok"
               /\ ret.value.subunits
                    = (call.m.subunits \div 100) * BiasExpected[call.factor.sig]
               /\ ret.value.decimalDigits = 2
    /\ (/\ call.op = "multiply" /\ ret # Pending
        /\ call.m.decimalDigits = 2 /\ call.m.subunits = 100
        /\ call.factor = Normalize(545, -3))
            => LET res == [s \in BiasSigs |->
                             multiply(registry, call.m, Normalize(s, -3)).value.subunits]
               IN  /\ SumOver(res, BiasSigs) = 342
                   /\ 1000 * SumOver(res, BiasSigs)
                         = 100 * SumOver([s \in BiasSigs |-> s], BiasSigs)

C4_Witness ==
    /\ call.op = "multiply" /\ ret.kind = "ok"
    /\ call.m.decimalDigits = 2 /\ call.m.subunits = -100
    /\ call.factor = Normalize(555, -3)
    /\ amount(ret.value) = <<"-", "0", ".", "5", "6">>

(***************************************************************************)
(* allocate on its own.  Proportions are enumerated as whole numbers and   *)
(* as even multiples of 10^-7, for which double-precision sums and         *)
(* products round as the decimal ones do.                                  *)
(***************************************************************************)
MaxProps == 3          \* proportion lists of 1..MaxProps entries
MaxProportion == 2     \* whole proportions 0..MaxProportion
MaxTinyProportion == 3 \* tiny proportions 2e-7, 4e-7 .. 2*MaxTinyProportion e-7
MaxAllocSub == 5       \* totals range over -MaxAllocSub..MaxAllocSub

Proportions ==
    {Normalize(j, 0) : j \in 0..MaxProportion}
        \cup {Normalize(2 * j, -7) : j \in 1..MaxTinyProportion}

ProportionLists == UNION {[1..n -> Proportions] : n \in 1..MaxProps}

\* The lists allocate is to refuse: empty, or with NaN or a negative entry,
\* or of zeros only
RefusedProportions ==
    {Normalize(0, 0), Normalize(1, 0), NotFinite, Normalize(-1, 0), Normalize(-2, -7)}

RefusedLists ==
    {ps \in UNION {[1..n -> RefusedProportions] : n \in 0..MaxProps} :
        \/ Len(ps) = 0
        \/ \E i \in 1..Len(ps) : ps[i] \notin Proportions
        \/ \A i \in 1..Len(ps) : ps[i] = Normalize(0, 0)}

\* The documented allocation: 10.00 over [1, 1, 1]
DocumentedAllocation ==
    [subunits |-> 1000, proportions |-> <<Normalize(1, 0), Normalize(1, 0), Normalize(1, 0)>>]

InitAllocate ==
    /\ \E d \in {0, 2} : registry = RegistryOf(d)
    /\ monies = {}
    /\ rates = <<>>
    /\ \/ call \in {[op |-> "allocate", m |-> MoneyOf(registry, "USD", s),
                      proportions |-> ps] :
                        s \in -MaxAllocSub..MaxAllocSub,
                        ps \in ProportionLists \cup RefusedLists}
       \/ call = [op |-> "allocate",
                  m |-> MoneyOf(registry, "USD", DocumentedAllocation.subunits),
                  proportions |-> DocumentedAllocation.proportions]
    /\ ret = Pending

Allocate ==
    /\ ret = Pending
    /\ call.op = "allocate"
    /\ ret' = allocate(registry, call.m, call.proportions)
    /\ UNCHANGED <<registry, monies, rates, call>>

SpecAllocate == InitAllocate /\ [][Allocate]_vars

RECURSIVE SumSubunits(_)
SumSubunits(ms) ==
    IF Len(ms) = 0 THEN 0 ELSE toSubunits(ms[1]) + SumSubunits(Tail(ms))

\* C1: whenever allocate returns, the subunits of the shares sum exactly to
\* the subunits of the original value.
C1_AllocateConserves ==
    (call.op = "allocate" /\ ret.kind = "ok")
        => SumSubunits(ret.value) = toSubunits(call.m)

\* a negative remainder larger than the number of shares was handed out:
\* the base shares of [6e-7, 6e-7] are the whole total each
C1_Witness ==
    /\ call.op = "allocate" /\ ret.kind = "ok"
    /\ Len(call.proportions) = 2
    /\ call.m.subunits > 2
    /\ LET base == baseAllocations(call.m.subunits, call.proportions,
                                   reduceSum(call.proportions))
       IN  call.m.subunits - reduceBigSum(base) < -2
    /\ SumSubunits(ret.value) = call.m.subunits

\* The list is valid input: not empty, every proportion finite and not
\* negative, and one of them positive
IsValidProportions(ps) ==
    /\ Len(ps) > 0
    /\ \A i \in 1..Len(ps) : ps[i].finite /\ ps[i].sig >= 0
    /\ \E i \in 1..Len(ps) : ps[i].sig > 0

\* C11: on every valid proportion list, however small its sum, allocate
\* succeeds and returns as many shares as there are proportions, each in the
\* original currency.
C11_AllocateTotalOnValidInput ==
    (call.op = "allocate" /\ ret # Pending /\ IsValidProportions(call.proportions)) =>
        /\ ret.kind = "ok"
        /\ Len(ret.value) = Len(call.proportions)
        /\ \A i \in 1..Len(ret.value) : ret.value[i].currency = call.m.currency

\* C12: an empty list, a list with a non-finite or negative proportion, and
\* a list whose sum is zero each fail with TypeError and return no shares.
C12_AllocateRejectsInvalidInput ==
    (call.op = "allocate" /\ ret # Pending /\ ~IsValidProportions(call.proportions))
        => ret = Threw("TypeError")

\* a list of two zeros was refused for a non-zero amount, and so was a list
\* that is valid up to a NaN in its last place
C12_Witness ==
    /\ call.op = "allocate"
    /\ call.m.subunits # 0
    /\ \/ call.proportions = <<Normalize(0, 0), Normalize(0, 0)>>
       \/ call.proportions = <<Normalize(1, 0), NotFinite>>
    /\ ret = Threw("TypeError")

\* The proportion p and the sum of the list, scaled and rounded as the code does
Scaled(p) == MathRound(NumTimes(p, PROPORTION_SCALE))

\* q is the greatest integer not above n / d, d being positive
IsFloor(q, n, d) == q * d <= n /\ n < (q + 1) * d

\* The base shares allocate computes for the call, before the remainder is
\* handed out
BaseShares ==
    baseAllocations(call.m.subunits, call.proportions, reduceSum(call.proportions))

\* C25: in allocate, the base share of proportion p is
\* floor(totalSubunits * round(p * 10^6) / round(totalProportions * 10^6)),
\* the greatest integer not above the exact quotient, for every total,
\* positive, zero or negative
C25_BaseShareIsFloor ==
    (call.op = "allocate" /\ ret.kind = "ok") =>
        \A i \in 1..Len(call.proportions) :
            IsFloor(BaseShares[i], call.m.subunits * Scaled(call.proportions[i]),
                    Scaled(reduceSum(call.proportions)))

\* How many of the turns 0, 1, ..., count - 1 fall on index i of n, taken round-robin
Turns(i, count, n) == Cardinality({k \in 0..(count - 1) : k % n = i - 1})

\* The remainder: what the total exceeds the sum of the base shares by
Remainder == call.m.subunits - reduceBigSum(BaseShares)

\* The loops of allocate run from the base shares
Distribution ==
    whileNegative(whilePositive([allocations |-> BaseShares, remainder |-> Remainder,
                                 i |-> 0]))

\* The shares are the base shares with the remainder handed out one subunit
\* a turn to indices 0, 1, 2, ... wrapping, added when it is positive and
\* subtracted when it is negative; the loops stop after as many turns as the
\* remainder counts, with nothing left
RoundRobinFromIndex0 ==
    /\ \A i \in 1..Len(call.proportions) :
          ret.value[i].subunits =
              BaseShares[i] + (IF Remainder >= 0 THEN 1 ELSE -1)
                                  * Turns(i, Abs(Remainder), Len(call.proportions))
    /\ Distribution.remainder = 0
    /\ Distribution.i = Abs(Remainder)

\* The first (T mod n) shares are floor(T / n) + 1 and the rest floor(T / n)
EqualSplit ==
    LET T == call.m.subunits
        n == Len(call.proportions)
    IN  \A i \in 1..n :
            ret.value[i].subunits = (T \div n) + (IF i <= T % n THEN 1 ELSE 0)

EqualProportions == \A i \in 1..Len(call.proportions) : call.proportions[i] = call.proportions[1]

\* C26 as stated: the remainder goes round-robin from index 0, so that a
\* non-negative total T over n equal proportions gives floor(T / n) + 1 to
\* the first (T mod n) shares and floor(T / n) to the rest
C26_RoundRobinEqualSplit ==
    (call.op = "allocate" /\ ret.kind = "ok") =>
        /\ RoundRobinFromIndex0
        /\ (call.m.subunits >= 0 /\ EqualProportions) => EqualSplit

\* C26: the remainder goes round-robin from index 0 and the loops end, so
\* that a non-negative total T over n equal proportions that are whole
\* multiples of 10^-6 gives floor(T / n) + 1 to the first (T mod n) shares
\* and floor(T / n) to the rest
C26_RoundRobinEqualSplitOfMillionths ==
    (call.op = "allocate" /\ ret # Pending) =>
        /\ ret.kind = "ok" => RoundRobinFromIndex0
        /\ (/\ call.m.subunits >= 0
            /\ IsValidProportions(call.proportions)
            /\ EqualProportions
            /\ call.proportions[1].exp >= -6)
              => (ret.kind = "ok" /\ EqualSplit)

\* 10.00 over [1, 1, 1] gave 3.34, 3.33 and 3.33
C26_Witness ==
    /\ call.op = "allocate"
    /\ call.m.subunits = 1000 /\ call.m.decimalDigits = 2
    /\ call.proportions = DocumentedAllocation.proportions
    /\ ret.kind = "ok"
    /\ amount(ret.value[1]) = <<"3", ".", "3", "4">>
    /\ amount(ret.value[2]) = <<"3", ".", "3", "3">>
    /\ amount(ret.value[3]) = <<"3", ".", "3", "3">>

\* C30: for a non-negative total and a valid proportion list, every share
\* allocate returns is non-negative, and every proportion equal to 0
\* receives a share of exactly zero subunits
C30_SharesRespectSignAndZero ==
    (call.op = "allocate" /\ ret.kind = "ok" /\ call.m.subunits >= 0
        /\ IsValidProportions(call.proportions)) =>
        \A i \in 1..Len(call.proportions) :
            /\ ret.value[i].subunits >= 0
            /\ call.proportions[i].sig = 0 => ret.value[i].subunits = 0




(***************************************************************************)
(* Construction from text and from subunits on its own                     *)
(***************************************************************************)
MaxRoundTripSub == 1100   \* fromSubunits is run on -MaxRoundTripSub..MaxRoundTripSub

AmountChars == {"-", ".", "0", "1", "9"}
AmountTexts == UNION {[1..n -> AmountChars] : n \in 0..MaxStrLen}

InitParse ==
    /\ \E d \in 0..MaxDecimals : registry = RegistryOf(d)
    /\ monies = {}
    /\ rates = <<>>
    /\ \/ call \in {[op |-> "new Money", currency |-> "USD", amount |-> s] :
                      s \in AmountTexts}
       \/ call \in {[op |-> "fromSubunits", currency |-> "USD", subunits |-> n] :
                      n \in -MaxRoundTripSub..MaxRoundTripSub}
    /\ ret = Pending

Construct ==
    /\ ret = Pending
    /\ call.op = "new Money"
    /\ ret' = NewMoney(registry, call.currency, call.amount)
    /\ UNCHANGED <<registry, monies, rates, call>>

FromSubunits ==
    /\ ret = Pending
    /\ call.op = "fromSubunits"
    /\ ret' = fromSubunits(registry, call.subunits, call.currency)
    /\ UNCHANGED <<registry, monies, rates, call>>

NextParse == Construct \/ FromSubunits

SpecParse == InitParse /\ [][NextParse]_vars

\* The decimal grammar, stated by its parts: an optional minus, one or more
\* digits, and optionally a point followed by one or more digits.
GrammarParts(s) ==
    {p \in [neg : BOOLEAN, w : 1..Len(s), f : 0..Len(s)] :
        LET sign == IF p.neg THEN <<"-">> ELSE <<>>
            body == SubSeq(s, Len(sign) + 1, Len(s))
        IN  /\ Len(s) = Len(sign) + p.w + (IF p.f > 0 THEN 1 + p.f ELSE 0)
            /\ SubSeq(s, 1, Len(sign)) = sign
            /\ \A i \in 1..p.w : body[i] \in Digits
            /\ p.f > 0 => /\ body[p.w + 1] = "."
                          /\ \A i \in 1..p.f : body[p.w + 1 + i] \in Digits}

IsGrammarValid(s) == GrammarParts(s) # {}
PartsOf(s) == CHOOSE p \in GrammarParts(s) : TRUE
WholeOf(s) == SubSeq(s, (IF PartsOf(s).neg THEN 2 ELSE 1),
                        (IF PartsOf(s).neg THEN 1 ELSE 0) + PartsOf(s).w)
FracOf(s) == SubSeq(s, Len(s) - PartsOf(s).f + 1, Len(s))

\* The number a text of digits denotes
RECURSIVE DigitsValue(_)
DigitsValue(s) ==
    IF Len(s) = 0 THEN 0 ELSE DigitValue(s[1]) * Pow(10, Len(s) - 1) + DigitsValue(Tail(s))

\* s with its fractional part zero-padded to exactly d digits
NormalizeText(s, d) ==
    LET missing == d - PartsOf(s).f
    IN  IF missing <= 0 THEN s
        ELSE IF PartsOf(s).f = 0 THEN s \o <<".">> \o Zeros(missing)
        ELSE s \o Zeros(missing)

\* C10: a grammar-valid text fails with SubunitError exactly when it writes
\* more fractional digits than the currency has; otherwise the stored subunits
\* are the whole part followed by the zero-padded fraction, read as a signed
\* integer.
C10_ParsingNeverTruncates ==
    (call.op = "new Money" /\ ret # Pending /\ IsGrammarValid(call.amount)) =>
        LET d == registry[call.currency]
            p == PartsOf(call.amount)
            magnitude == DigitsValue(WholeOf(call.amount)) * Pow(10, d)
                            + DigitsValue(FracOf(call.amount)) * Pow(10, d - p.f)
        IN  IF p.f > d THEN ret = Threw("SubunitError")
            ELSE /\ ret.kind = "ok"
                 /\ ret.value.subunits = (IF p.neg THEN -magnitude ELSE magnitude)

\* '1.0' was refused for a currency without decimals
C10_Witness ==
    /\ call.op = "new Money"
    /\ call.amount = <<"1", ".", "0">>
    /\ registry[call.currency] = 0
    /\ ret = Threw("SubunitError")

\* C6 as stated: for every grammar-valid text with no more fractional digits
\* than the currency has, the amount of the parsed Money is the text with its
\* fraction zero-padded.
C6_RoundTripEveryValidText ==
    (/\ call.op = "new Money" /\ ret # Pending
     /\ IsGrammarValid(call.amount)
     /\ PartsOf(call.amount).f <= registry[call.currency])
        => /\ ret.kind = "ok"
           /\ amount(ret.value) = NormalizeText(call.amount, registry[call.currency])

\* The text is written canonically: no leading zero before another digit of
\* the whole part, and no minus sign on a zero.
IsCanonical(s) ==
    /\ (PartsOf(s).w > 1 => WholeOf(s)[1] # "0")
    /\ (PartsOf(s).neg =>
            DigitsValue(WholeOf(s)) + DigitsValue(FracOf(s)) # 0)

\* C6 amended: the round trip holds for the canonically written texts.
C6_RoundTripCanonicalText ==
    (/\ call.op = "new Money" /\ ret # Pending
     /\ IsGrammarValid(call.amount)
     /\ PartsOf(call.amount).f <= registry[call.currency]
     /\ IsCanonical(call.amount))
        => /\ ret.kind = "ok"
           /\ amount(ret.value) = NormalizeText(call.amount, registry[call.currency])

\* a canonical negative text with a short fraction came back zero-padded
C6_Witness ==
    /\ call.op = "new Money" /\ ret.kind = "ok"
    /\ call.amount = <<"-", "0", ".", "1">>
    /\ registry[call.currency] = 3
    /\ amount(ret.value) = <<"-", "0", ".", "1", "0", "0">>

\* C7: fromSubunits(n, c).toSubunits() = n; and for every Money m, each of
\* fromSubunits(m.toSubunits(), c), new Money(c, m.amount) and
\* fromObject(m.toJSON()) is equal to m with the same amount text.
SameAs(r, m) ==
    /\ r.kind = "ok"
    /\ equalTo(r.value, m) = Returned(TRUE)
    /\ amount(r.value) = amount(m)
    /\ r.value = m

C7_ExportImportLossless ==
    /\ (call.op = "fromSubunits" /\ ret # Pending)
            => (ret.kind = "ok" /\ toSubunits(ret.value) = call.subunits)
    /\ (call.op \in {"new Money", "fromSubunits"} /\ ret.kind = "ok") =>
            LET m == ret.value
            IN  /\ SameAs(fromSubunits(registry, toSubunits(m), m.currency), m)
                /\ SameAs(NewMoney(registry, m.currency, amount(m)), m)
                /\ SameAs(fromObject(registry, toJSON(m)), m)

\* a negative count below one whole unit went out as text and came back
C7_Witness ==
    /\ call.op = "fromSubunits" /\ ret.kind = "ok"
    /\ call.subunits = -9
    /\ registry[call.currency] = 3
    /\ toJSON(ret.value).amount = <<"-", "0", ".", "0", "0", "9">>
    /\ toSubunits(ret.value) = -9

(***************************************************************************)
(* The operations on two values, each on its own                           *)
(***************************************************************************)
BinaryOps ==
    {"add", "subtract", "equalTo", "greaterThan", "lessThan", "greaterThanOrEqual",
     "lessThanOrEqual", "compare"}

InitBinary ==
    /\ \E d \in 0..MaxDecimals : registry = RegistryOf(d)
    /\ monies = {}
    /\ rates = <<>>
    /\ \E op \in BinaryOps, ca \in Codes, cb \in Codes,
          sa \in -MaxSub..MaxSub, sb \in -MaxSub..MaxSub :
          call = [op |-> op, a |-> MoneyOf(registry, ca, sa), b |-> MoneyOf(registry, cb, sb)]
    /\ ret = Pending

AddCall ==
    /\ ret = Pending /\ call.op = "add"
    /\ ret' = add(registry, call.a, call.b)
    /\ UNCHANGED <<registry, monies, rates, call>>

SubtractCall ==
    /\ ret = Pending /\ call.op = "subtract"
    /\ ret' = subtract(registry, call.a, call.b)
    /\ UNCHANGED <<registry, monies, rates, call>>

EqualToCall ==
    /\ ret = Pending /\ call.op = "equalTo"
    /\ ret' = equalTo(call.a, call.b)
    /\ UNCHANGED <<registry, monies, rates, call>>

GreaterThanCall ==
    /\ ret = Pending /\ call.op = "greaterThan"
    /\ ret' = greaterThan(call.a, call.b)
    /\ UNCHANGED <<registry, monies, rates, call>>

LessThanCall ==
    /\ ret = Pending /\ call.op = "lessThan"
    /\ ret' = lessThan(call.a, call.b)
    /\ UNCHANGED <<registry, monies, rates, call>>

GreaterThanOrEqualCall ==
    /\ ret = Pending /\ call.op = "greaterThanOrEqual"
    /\ ret' = greaterThanOrEqual(call.a, call.b)
    /\ UNCHANGED <<registry, monies, rates, call>>

LessThanOrEqualCall ==
    /\ ret = Pending /\ call.op = "lessThanOrEqual"
    /\ ret' = lessThanOrEqual(call.a, call.b)
    /\ UNCHANGED <<registry, monies, rates, call>>

CompareCall ==
    /\ ret = Pending /\ call.op = "compare"
    /\ ret' = compare(call.a, call.b)
    /\ UNCHANGED <<registry, monies, rates, call>>

NextBinary ==
    \/ AddCall
    \/ SubtractCall
    \/ EqualToCall
    \/ GreaterThanCall
    \/ LessThanCall
    \/ GreaterThanOrEqualCall
    \/ LessThanOrEqualCall
    \/ CompareCall

SpecBinary == InitBinary /\ [][NextBinary]_vars

\* C8: add, subtract, equalTo, greaterThan, lessThan, greaterThanOrEqual,
\* lessThanOrEqual and Money.compare on two values of different currencies
\* fail with CurrencyMismatchError and return nothing, whatever the two
\* amounts are.
C8_CurrencyMismatchGuard ==
    (call.op \in BinaryOps /\ ret # Pending /\ call.a.currency # call.b.currency)
        => ret = Threw("CurrencyMismatchError")

\* two zero amounts of different currencies were compared for equality
\* and the comparison failed
C8_Witness ==
    /\ call.op = "equalTo"
    /\ call.a.currency # call.b.currency
    /\ call.a.subunits = 0 /\ call.b.subunits = 0
    /\ call.a.decimalDigits = call.b.decimalDigits
    /\ ret = Threw("CurrencyMismatchError")

(***************************************************************************)
(* convert on its own, over stores that one setRate makes                   *)
(***************************************************************************)
MaxConvertSub == 12   \* converted subunit counts range over -MaxConvertSub..MaxConvertSub

ConvertDecimals == {0, 2, MaxDecimals}

\* The rates given to setRate as text; "x" is not a number
RateTexts ==
    {<<"0", ".", "9", "2">>, <<"0", ".", "5">>, <<"1", ".", "5">>, <<"2">>,
     <<"0", ".", "1", "2", "5">>, <<"-", "0", ".", "5">>, <<"x">>}

\* The rates given to setRate as numbers
RateNumbers == {Normalize(92, -2), Normalize(2, 0)}

\* The stores one setRate makes from an empty store
RateStores ==
    {setRate(<<>>, "USD", "EUR", r, FALSE, <<>>, autoInverse) :
        r \in RateTexts, autoInverse \in BOOLEAN}
        \cup {setRate(<<>>, "USD", "EUR", r, TRUE, <<>>, autoInverse) :
                r \in RateNumbers, autoInverse \in BOOLEAN}

\* The rates whose automatic inverse has few digits
ShortInverses == {Normalize(5, -1), Normalize(2, 0), Normalize(125, -3)}

\* The amounts of the documented conversions, in subunits of a 2-digit currency
DocumentedSubunits == {10000, 10055, -10055}

\* The empty store, the stores holding a rate of a currency to itself, and
\* the store holding the rates between USD and GBP
OtherStores ==
    {<<>>, setRate(<<>>, "USD", "GBP", <<"0", ".", "5">>, FALSE, <<>>, TRUE)}
        \cup {setRate(<<>>, c, c, <<"0", ".", "5">>, FALSE, <<>>, autoInverse) :
                 c \in {"USD", "EUR", "GBP"}, autoInverse \in BOOLEAN}

\* Values of GBP, made while GBP was registered with two decimal digits
UnregisteredSubunits == {-150, 0, 7}

InitConvert ==
    /\ monies = {}
    /\ ret = Pending
    /\ \E sd \in ConvertDecimals, td \in ConvertDecimals,
          target \in {"USD", "EUR", "JPY", "GBP"} :
          /\ registry = registerCurrency(RegistryOf(sd), "EUR", td)
          /\ rates \in RateStores \cup OtherStores
          /\ \/ \E s \in -MaxConvertSub..MaxConvertSub :
                   call = [op |-> "convert", money |-> MoneyOf(registry, "USD", s),
                           targetCurrency |-> target]
             \/ /\ sd = 2 /\ td = 2
                /\ rates \in RateStores
                /\ NumberOf(rates[key("USD", "EUR")].rate) = Normalize(92, -2)
                /\ \E s \in DocumentedSubunits :
                      call = [op |-> "convert", money |-> MoneyOf(registry, "USD", s),
                              targetCurrency |-> target]
             \/ /\ IF rates \in OtherStores THEN TRUE
                   ELSE NumberOf(rates[key("USD", "EUR")].rate) \in ShortInverses
                /\ \E s \in -MaxConvertSub..MaxConvertSub :
                      call = [op |-> "convert", money |-> MoneyOf(registry, "EUR", s),
                              targetCurrency |-> target]
             \/ /\ rates \in OtherStores
                /\ \E s \in UnregisteredSubunits :
                      call = [op |-> "convert",
                              money |-> [currency |-> "GBP", subunits |-> s,
                                         decimalDigits |-> 2],
                              targetCurrency |-> target]

Convert ==
    /\ call.op = "convert"
    /\ ret = Pending
    /\ ret' = convert(registry, rates, call.money, call.targetCurrency)
    /\ UNCHANGED <<registry, monies, rates, call>>

SpecConvert == InitConvert /\ [][Convert]_vars

\* The stored rate the call reads, as a number
StoredRate == NumberOf(rates[key(call.money.currency, call.targetCurrency)].rate)

\* The call converts between two registered currencies at a stored rate
\* whose value scaled by 10^RatePrecision is an integer
ConvertsAtScaledRate ==
    /\ call.op = "convert"
    /\ call.money.currency # call.targetCurrency
    /\ call.money.currency \in DOMAIN registry
    /\ call.targetCurrency \in DOMAIN registry
    /\ key(call.money.currency, call.targetCurrency) \in DOMAIN rates
    /\ StoredRate.finite
    /\ StoredRate.exp + RatePrecision >= 0

C19_ConversionErrorKinds ==
    (call.op = "convert" /\ ret # Pending /\ call.targetCurrency # call.money.currency) =>
        /\ call.targetCurrency \notin DOMAIN registry => ret = Threw("CurrencyUnknownError")
        /\ (/\ call.targetCurrency \in DOMAIN registry
            /\ key(call.money.currency, call.targetCurrency) \notin DOMAIN rates) =>
               ret = Threw("ExchangeRateError")

\* USD was converted to the unregistered GBP over a store holding USD -> GBP
C19_Witness ==
    /\ call.op = "convert"
    /\ call.money.currency = "USD"
    /\ call.targetCurrency = "GBP"
    /\ "GBP" \notin DOMAIN registry
    /\ key("USD", "GBP") \in DOMAIN rates
    /\ ret = Threw("CurrencyUnknownError")


(***************************************************************************)
(* The rate store as a state machine: the operations of                    *)
(* ExchangeRateService in every order, from the empty store.  The entry's  *)
(* timestamp is not represented.                                           *)
(***************************************************************************)
StoreCodes == {"USD", "EUR"}

\* A rate argument with the source given along with it: the number 0.92
\* without a source, or the text "1.10" from the source "ECB"
RateInputs ==
    {[isNumber |-> TRUE, number |-> Normalize(92, -2), text |-> <<>>, source |-> <<>>],
     [isNumber |-> FALSE, number |-> NotFinite, text |-> <<"1", ".", "1", "0">>,
      source |-> <<"ECB">>]}

RateArgument(r) == IF r.isNumber THEN r.number ELSE r.text

\* Keys of a loaded map: three name a pair, three are not of the form FROM:TO
LoadKeys ==
    {<<"USD", ":", "EUR">>, <<"EUR", ":", "USD">>, <<"USD", ":", "USD">>,
     <<"USD">>, <<"USD", ":">>, <<":", "EUR">>}

\* Maps of one rate: empty, of one key, or of two keys
LoadedMaps ==
    LET entry(k, r) == [key |-> k, isNumber |-> r.isNumber, number |-> r.number,
                        text |-> r.text]
        pairs == {<<<<"USD", ":", "EUR">>, <<"EUR", ":", "USD">>>>,
                  <<<<"EUR", ":", "USD">>, <<"USD">>>>,
                  <<<<":", "EUR">>, <<"USD", ":", "EUR">>>>}
    IN  UNION {{[map |-> <<>>, source |-> r.source]}
               \cup {[map |-> <<entry(k, r)>>, source |-> r.source] : k \in LoadKeys}
               \cup {[map |-> <<entry(p[1], r), entry(p[2], r)>>, source |-> r.source] :
                        p \in pairs} : r \in RateInputs}

\* The leading digits of a rate text that may differ from 0 for the product
\* of two rates to be computed
MaxRateDigits == 4

IsShortRate(text) == \A i \in 1..Len(text) : i > MaxRateDigits + 1 => text[i] = "0"

InitStore ==
    /\ registry = StockCurrencyMap
    /\ monies = {}
    /\ rates = <<>>
    /\ call = [op |-> "new"]
    /\ ret = Pending

SetRate ==
    \E from \in StoreCodes, to \in StoreCodes, r \in RateInputs, autoInverse \in BOOLEAN :
        /\ rates' = setRate(rates, from, to, RateArgument(r), r.isNumber, r.source,
                            autoInverse)
        /\ call' = [op |-> "setRate", from |-> from, to |-> to, rate |-> r,
                    source |-> r.source, autoInverse |-> autoInverse, before |-> rates]
        /\ ret' = [kind |-> "ok"]
        /\ UNCHANGED <<registry, monies>>

LoadRates ==
    \E l \in LoadedMaps :
        /\ rates' = loadRates(rates, l.map, l.source)
        /\ call' = [op |-> "loadRates", map |-> l.map, source |-> l.source,
                    before |-> rates]
        /\ ret' = [kind |-> "ok"]
        /\ UNCHANGED <<registry, monies>>

RemoveRate ==
    \E from \in StoreCodes, to \in StoreCodes :
        /\ rates' = removeRate(rates, from, to).rates
        /\ call' = [op |-> "removeRate", from |-> from, to |-> to, before |-> rates]
        /\ ret' = Returned(removeRate(rates, from, to).result)
        /\ UNCHANGED <<registry, monies>>

Clear ==
    /\ rates' = clear(rates)
    /\ call' = [op |-> "clear", before |-> rates]
    /\ ret' = [kind |-> "ok"]
    /\ UNCHANGED <<registry, monies>>

GetRate ==
    \E from \in StoreCodes, to \in StoreCodes :
        /\ call' = [op |-> "getRate", from |-> from, to |-> to]
        /\ ret' = Returned(getRate(rates, from, to))
        /\ UNCHANGED <<registry, monies, rates>>

HasRate ==
    \E from \in StoreCodes, to \in StoreCodes :
        /\ call' = [op |-> "hasRate", from |-> from, to |-> to]
        /\ ret' = Returned(hasRate(rates, from, to))
        /\ UNCHANGED <<registry, monies, rates>>

\* The pair is asked for when the product of its rates can be computed
GetRatePair ==
    \E currencyA \in StoreCodes, currencyB \in StoreCodes :
        /\ IsShortRate(getRate(rates, currencyA, currencyB).rate)
        /\ IsShortRate(getRate(rates, currencyB, currencyA).rate)
        /\ call' = [op |-> "getRatePair", currencyA |-> currencyA, currencyB |-> currencyB]
        /\ ret' = Returned(getRatePair(rates, currencyA, currencyB))
        /\ UNCHANGED <<registry, monies, rates>>

GetRatesFrom ==
    \E base \in StoreCodes :
        /\ call' = [op |-> "getRatesFrom", base |-> base]
        /\ ret' = Returned(getRatesFrom(rates, base))
        /\ UNCHANGED <<registry, monies, rates>>

GetAllRates ==
    /\ call' = [op |-> "getAllRates"]
    /\ ret' = Returned(getAllRates(rates))
    /\ UNCHANGED <<registry, monies, rates>>

NextStore ==
    \/ SetRate
    \/ LoadRates
    \/ RemoveRate
    \/ Clear
    \/ GetRate
    \/ HasRate
    \/ GetRatePair
    \/ GetRatesFrom
    \/ GetAllRates

SpecStore == InitStore /\ [][NextStore]_vars



\* The pairs of the entries in a list of rates, in its order
PairsOf(list) == [i \in 1..Len(list) |-> <<list[i].from, list[i].to>>]

Identity(X) ==
    [found |-> TRUE, from |-> X, to |-> X, rate |-> <<"1">>, source |-> <<"(identity)">>]

\* C14: whatever operations ran, no stored entry has its from equal to its
\* to, getAllRates and getRatesFrom return none, and getRate(X, X) is the
\* identity rate "1" of source "(identity)"
C14_IdentityNeverStored ==
    /\ \A k \in DOMAIN rates : rates[k].from # rates[k].to
    /\ LET all == PairsOf(getAllRates(rates))
       IN  \A i \in 1..Len(all) : all[i][1] # all[i][2]
    /\ \A base \in StoreCodes :
           LET from == PairsOf(getRatesFrom(rates, base))
           IN  \A i \in 1..Len(from) : from[i][2] # base
    /\ \A X \in StoreCodes : getRate(rates, X, X) = Identity(X)

\* The part of C14 that the lookup alone decides
IdentitySynthesized == \A X \in StoreCodes : getRate(rates, X, X) = Identity(X)

\* The digits of a text, as numbers
RECURSIVE DigitsOf(_)
DigitsOf(text) ==
    IF Len(text) = 0 THEN <<>>
    ELSE IF text[1] \in Digits THEN <<DigitValue(text[1])>> \o DigitsOf(Tail(text))
    ELSE DigitsOf(Tail(text))

\* The digits of ds * n + carry, by the written method
RECURSIVE TimesDigits(_, _, _)
TimesDigits(ds, n, carry) ==
    IF Len(ds) = 0 THEN (IF carry = 0 THEN <<>> ELSE TimesDigits(<<>>, n, carry \div 10) \o <<carry % 10>>)
    ELSE LET v == ds[Len(ds)] * n + carry
         IN  TimesDigits(SubSeq(ds, 1, Len(ds) - 1), n, v \div 10) \o <<v % 10>>

RECURSIVE StripZeros(_)
StripZeros(ds) == IF Len(ds) > 0 /\ ds[1] = 0 THEN StripZeros(Tail(ds)) ELSE ds

\* The digits ps are within tol of 10^k
NearPowerOfTen(ps, k, tol) ==
    LET tail == ps[Len(ps) - 2] * 100 + ps[Len(ps) - 1] * 10 + ps[Len(ps)]
    IN  \/ /\ Len(ps) = k
           /\ \A i \in 1..(Len(ps) - 3) : ps[i] = 9
           /\ 1000 - tail <= tol
        \/ /\ Len(ps) = k + 1
           /\ ps[1] = 1
           /\ \A i \in 2..(Len(ps) - 3) : ps[i] = 0
           /\ tail <= tol

\* The text is 1 / x to the last digit it shows: text * x is off 1 by no
\* more than half a unit of the text's last place times x
IsInverseText(text, x) ==
    LET match == MatchDecimal(text)
        product == StripZeros(TimesDigits(DigitsOf(text), x.sig, 0))
    IN  /\ match.ok
        /\ match.sign # "-"
        /\ NearPowerOfTen(product, Len(match.frac) - x.exp, x.sig \div 2)

InverseLabels == {<<"(inverse)">>, <<"ECB (inverse)">>}

RateValue(r) == IF r.isNumber THEN r.number ELSE NumberOf(r.text)

\* What C15 says of one setRate call
AutoInverseRule ==
    LET b == call.before
        ik == key(call.to, call.from)
    IN  /\ (call.autoInverse /\ ik \notin DOMAIN b) =>
               /\ ik \in DOMAIN rates
               /\ rates[ik].from = call.to
               /\ rates[ik].to = call.from
               /\ IsInverseText(rates[ik].rate, RateValue(call.rate))
               /\ rates[ik].source \in InverseLabels
        /\ ik \in DOMAIN b => (ik \in DOMAIN rates /\ rates[ik] = b[ik])
        /\ (~call.autoInverse /\ ik \notin DOMAIN b) => ik \notin DOMAIN rates

\* C15: setRate(from, to, r) with autoInverse on creates the entry (to, from)
\* of rate 1/r and a source ending in "(inverse)" exactly when the store held
\* no (to, from) entry; an entry it held is left as it was; with autoInverse
\* off no (to, from) entry is created or changed
C15_AutoInverseNeverOverwrites == call.op = "setRate" => AutoInverseRule

\* C15 for two different currencies
AutoInverseOfDistinctCurrencies ==
    (call.op = "setRate" /\ call.from # call.to) => AutoInverseRule

\* The pair a key names, when it has the form FROM:TO
NamesPair(k) == Len(k) = 3 /\ k[1] # ":" /\ k[2] = ":" /\ k[3] # ":"

\* The entries of the loaded map whose key names a pair
NamingEntries == {i \in 1..Len(call.map) : NamesPair(call.map[i].key)}

C17_RatePair ==
    call.op = "getRatePair" =>
        LET f == getRate(rates, call.currencyA, call.currencyB)
            r == getRate(rates, call.currencyB, call.currencyA)
            F == NumberOf(f.rate)
            R == NumberOf(r.rate)
            d == ret.value.discrepancy
            e == Min(Min(F.exp + R.exp, d.exp), 0)
            unit == Pow(10, -e)
            product == F.sig * R.sig * Pow(10, F.exp + R.exp - e)
        IN  /\ ret.kind = "ok"
            /\ ret.value.found = (f.found /\ r.found)
            /\ call.currencyA = call.currencyB => ret.value.found
            /\ ret.value.found =>
                   /\ ret.value.forward = f
                   /\ ret.value.reverse = r
                   /\ d.finite
                   /\ d.sig >= 0
                   /\ d.sig * Pow(10, d.exp - e) = Abs(unit - product)
                   /\ call.currencyA = call.currencyB => d.sig = 0
                   /\ (F = Normalize(92, -2) /\ R = Normalize(11, -1)) =>
                          d = Normalize(12, -3)

\* the pair of 0.92 and 1.10, both stored, was asked for
C17_Witness ==
    /\ call.op = "getRatePair"
    /\ call.currencyA # call.currencyB
    /\ ret.value.found
    /\ NumberOf(ret.value.forward.rate) = Normalize(92, -2)
    /\ NumberOf(ret.value.reverse.rate) = Normalize(11, -1)
    /\ ret.value.discrepancy = Normalize(12, -3)

\* In the store rs, every entry (to, from) created automatically as an
\* inverse is accompanied by an entry (from, to) and holds the reciprocal of
\* that entry's rate
InversesTrackForward(rs) ==
    \A k \in DOMAIN rs :
        rs[k].source \in InverseLabels =>
            LET forward == key(rs[k].to, rs[k].from)
            IN  /\ forward \in DOMAIN rs
                /\ IsInverseText(rs[k].rate, NumberOf(rs[forward].rate))

\* C28: after any sequence of setRate (autoInverse enabled), removeRate and
\* clear calls, every entry (to, from) that was created automatically as an
\* inverse is accompanied by a stored entry (from, to), and its rate is the
\* reciprocal of the rate (from, to) stored now: each such call made on a
\* store of which this is true leaves a store of which it is true
C28_AutoInverseTracksForward ==
    (/\ \/ call.op = "setRate" /\ call.autoInverse
        \/ call.op \in {"removeRate", "clear"}
     /\ InversesTrackForward(call.before)) => InversesTrackForward(rates)



(***************************************************************************)
(* The converter's add, subtract and sum, each on its own                  *)
(***************************************************************************)
\* The empty store, USD -> EUR at 0.5 with its inverse, USD -> EUR at 1.5 alone
CrossStores ==
    {<<>>, setRate(<<>>, "USD", "EUR", <<"0", ".", "5">>, FALSE, <<>>, TRUE),
     setRate(<<>>, "USD", "EUR", <<"1", ".", "5">>, FALSE, <<>>, FALSE)}

CrossSubunits == {-3, 0, 5, 10}

\* Values of USD and EUR, and of GBP made while GBP was registered
CrossValues(reg) ==
    {MoneyOf(reg, c, s) : c \in {"USD", "EUR"}, s \in CrossSubunits}
        \cup {[currency |-> "GBP", subunits |-> s, decimalDigits |-> 2] : s \in {0, 7}}

MaxSummed == 2   \* sum is given lists of at most MaxSummed values

InitCross ==
    /\ monies = {}
    /\ ret = Pending
    /\ \E td \in {0, 2} : registry = registerCurrency(RegistryOf(2), "EUR", td)
    /\ rates \in CrossStores
    /\ \E R \in {"USD", "EUR", "JPY", "GBP"} :
          \/ \E a \in CrossValues(registry), b \in CrossValues(registry),
                op \in {"converter.add", "converter.subtract"} :
                call = [op |-> op, a |-> a, b |-> b, resultCurrency |-> R]
          \/ \E list \in UNION {[1..n -> CrossValues(registry)] : n \in 0..MaxSummed} :
                call = [op |-> "converter.sum", amounts |-> list, targetCurrency |-> R]

ConverterAdd ==
    /\ call.op = "converter.add"
    /\ ret = Pending
    /\ ret' = MoneyConverter_add(registry, rates, call.a, call.b, call.resultCurrency)
    /\ UNCHANGED <<registry, monies, rates, call>>

ConverterSubtract ==
    /\ call.op = "converter.subtract"
    /\ ret = Pending
    /\ ret' = MoneyConverter_subtract(registry, rates, call.a, call.b, call.resultCurrency)
    /\ UNCHANGED <<registry, monies, rates, call>>

ConverterSum ==
    /\ call.op = "converter.sum"
    /\ ret = Pending
    /\ ret' = MoneyConverter_sum(registry, rates, call.amounts, call.targetCurrency)
    /\ UNCHANGED <<registry, monies, rates, call>>

NextCross ==
    \/ ConverterAdd
    \/ ConverterSubtract
    \/ ConverterSum

SpecCross == InitCross /\ [][NextCross]_vars

\* The amounts of the call, and the currency they are brought to
CrossAmounts ==
    IF call.op = "converter.sum" THEN call.amounts ELSE <<call.a, call.b>>

CrossTarget ==
    IF call.op = "converter.sum" THEN call.targetCurrency ELSE call.resultCurrency

\* The conversions the call is said to delegate to, in order
Conversions ==
    [i \in 1..Len(CrossAmounts) |-> convert(registry, rates, CrossAmounts[i], CrossTarget)]

Failing == {i \in 1..Len(Conversions) : Conversions[i].kind # "ok"}

\* The subunits of zero plus, or of the first minus, the converted amounts
RECURSIVE Combined(_, _)
Combined(cs, minus) ==
    IF Len(cs) = 0 THEN 0
    ELSE IF minus /\ Len(cs) > 1
         THEN Combined(SubSeq(cs, 1, Len(cs) - 1), minus) - cs[Len(cs)].value.subunits
    ELSE Combined(SubSeq(cs, 1, Len(cs) - 1), minus) + cs[Len(cs)].value.subunits

\* The result is the combination of the conversions: a failing conversion's
\* error, the first one's, or else a value of the target currency
DelegatesToConvert ==
    /\ Failing # {} =>
           \/ ret = Conversions[CHOOSE i \in Failing : \A j \in Failing : i <= j]
           \/ ret = Threw("CurrencyUnknownError") /\ CrossTarget \notin DOMAIN registry
    /\ ret.kind = "ok" =>
           /\ ret.value.currency = CrossTarget
           /\ ret.value.decimalDigits = registry[CrossTarget]
           /\ ret.value.subunits = Combined(Conversions, call.op = "converter.subtract")

IsCrossCall == call.op \in {"converter.add", "converter.subtract", "converter.sum"}

\* C20 as stated: add, subtract and sum give what the conversions of their
\* amounts to the target currency, added to zero or subtracted, give, and
\* fail exactly when one of those conversions fails
C20_DelegationFailsWithConversion ==
    (IsCrossCall /\ ret # Pending) =>
        /\ DelegatesToConvert
        /\ ret.kind # "ok" <=> Failing # {}

\* C20 with the failure of the result currency: add, subtract and sum give
\* what the conversions give, and fail exactly when one of the conversions
\* fails or the target currency is not registered
C20_DelegationFailsWithConversionOrTarget ==
    (IsCrossCall /\ ret # Pending) =>
        /\ DelegatesToConvert
        /\ ret.kind # "ok" <=> (Failing # {} \/ CrossTarget \notin DOMAIN registry)
        /\ (Failing = {} /\ CrossTarget \notin DOMAIN registry) =>
               ret = Threw("CurrencyUnknownError")

\* 0.10 USD and 0.05 EUR were added in EUR at 0.5, giving 0.10 EUR
C20_Witness ==
    /\ call.op = "converter.add"
    /\ call.a.currency = "USD" /\ call.a.subunits = 10
    /\ call.b.currency = "EUR" /\ call.b.subunits = 5
    /\ call.resultCurrency = "EUR"
    /\ registry["EUR"] = 2
    /\ key("USD", "EUR") \in DOMAIN rates
    /\ NumberOf(rates[key("USD", "EUR")].rate) = Normalize(5, -1)
    /\ ret.kind = "ok"
    /\ ret.value.currency = "EUR"
    /\ ret.value.subunits = 10


(***************************************************************************)
(* The operations on values of one currency, three values at hand          *)
(***************************************************************************)
MaxTripleSub == 3   \* the three values hold -MaxTripleSub..MaxTripleSub subunits

SignOps == {"isZero", "isPositive", "isNegative"}

InitTriple ==
    /\ \E d \in 0..MaxDecimals : registry = RegistryOf(d)
    /\ monies = {}
    /\ rates = <<>>
    /\ \E op \in BinaryOps \cup SignOps, code \in Codes,
          sa \in -MaxTripleSub..MaxTripleSub, sb \in -MaxTripleSub..MaxTripleSub,
          sc \in -MaxTripleSub..MaxTripleSub :
          call = [op |-> op, a |-> MoneyOf(registry, code, sa),
                  b |-> MoneyOf(registry, code, sb), c |-> MoneyOf(registry, code, sc)]
    /\ ret = Pending

IsZeroCall ==
    /\ ret = Pending /\ call.op = "isZero"
    /\ ret' = Returned(isZero(call.a))
    /\ UNCHANGED <<registry, monies, rates, call>>

IsPositiveCall ==
    /\ ret = Pending /\ call.op = "isPositive"
    /\ ret' = Returned(isPositive(call.a))
    /\ UNCHANGED <<registry, monies, rates, call>>

IsNegativeCall ==
    /\ ret = Pending /\ call.op = "isNegative"
    /\ ret' = Returned(isNegative(call.a))
    /\ UNCHANGED <<registry, monies, rates, call>>

NextTriple ==
    \/ NextBinary
    \/ IsZeroCall
    \/ IsPositiveCall
    \/ IsNegativeCall

SpecTriple == InitTriple /\ [][NextTriple]_vars

\* What the returned call gave
Gave(op, x, y) == call.op = op /\ call.a = x /\ call.b = y /\ ret # Pending

\* Each comparison of the call's values: the call's own result where it is
\* the call made, the operation's result otherwise
Eq(x, y) == IF Gave("equalTo", x, y) THEN ret.value ELSE equalTo(x, y).value
Lt(x, y) == IF Gave("lessThan", x, y) THEN ret.value ELSE lessThan(x, y).value
Gt(x, y) == IF Gave("greaterThan", x, y) THEN ret.value ELSE greaterThan(x, y).value
Le(x, y) == IF Gave("lessThanOrEqual", x, y) THEN ret.value ELSE lessThanOrEqual(x, y).value
Ge(x, y) ==
    IF Gave("greaterThanOrEqual", x, y) THEN ret.value ELSE greaterThanOrEqual(x, y).value
Cmp(x, y) == IF Gave("compare", x, y) THEN ret.value ELSE compare(x, y).value

\* C21: on values a, b, c of one currency, equalTo is reflexive,
\* lessThanOrEqual both ways gives equalTo, lessThan is transitive, lessThan
\* is the negation of greaterThanOrEqual and greaterThan that of
\* lessThanOrEqual, Money.compare is -1, 0 or 1 as lessThan, equalTo or
\* greaterThan holds, all of them following the order of the subunits, and
\* exactly one of isZero, isPositive, isNegative holds
C21_ComparisonTotalOrder ==
    (call.op \in BinaryOps \cup SignOps /\ "c" \in DOMAIN call /\ ret # Pending) =>
        LET a == call.a
            b == call.b
            c == call.c
            signs == <<IF call.op = "isZero" THEN ret.value ELSE isZero(a),
                       IF call.op = "isPositive" THEN ret.value ELSE isPositive(a),
                       IF call.op = "isNegative" THEN ret.value ELSE isNegative(a)>>
        IN  /\ ret.kind = "ok"
            /\ Eq(a, a)
            /\ (Le(a, b) /\ Le(b, a)) => Eq(a, b)
            /\ (Lt(a, b) /\ Lt(b, c)) => Lt(a, c)
            /\ Lt(a, b) <=> ~Ge(a, b)
            /\ Gt(a, b) <=> ~Le(a, b)
            /\ Cmp(a, b) \in {-1, 0, 1}
            /\ Cmp(a, b) = -1 <=> Lt(a, b)
            /\ Cmp(a, b) = 0 <=> Eq(a, b)
            /\ Cmp(a, b) = 1 <=> Gt(a, b)
            /\ Lt(a, b) <=> a.subunits < b.subunits
            /\ Eq(a, b) <=> a.subunits = b.subunits
            /\ Cardinality({i \in 1..3 : signs[i]}) = 1

\* two equal amounts were compared with greaterThanOrEqual, the third being greater
C21_Witness ==
    /\ call.op = "greaterThanOrEqual"
    /\ "c" \in DOMAIN call
    /\ call.a.subunits = -1 /\ call.b.subunits = -1 /\ call.c.subunits = 2
    /\ call.a.decimalDigits = 2
    /\ ret = Returned(TRUE)

\* a.add(b), a.subtract(b) as values
Sum(x, y) == IF Gave("add", x, y) THEN ret.value ELSE add(registry, x, y).value
Difference(x, y) ==
    IF Gave("subtract", x, y) THEN ret.value ELSE subtract(registry, x, y).value

\* C22: on values a, b, c of one currency, add and subtract return the value
\* of that currency whose subunits are the integer sum and difference; add is
\* commutative and associative, adding zero changes nothing, and subtracting
\* b and then adding b gives a back
C22_ExactAddSubtract ==
    (call.op \in {"add", "subtract"} /\ "c" \in DOMAIN call /\ ret # Pending) =>
        LET a == call.a
            b == call.b
            c == call.c
        IN  /\ ret.kind = "ok"
            /\ Sum(a, b) = [currency |-> a.currency, subunits |-> a.subunits + b.subunits,
                            decimalDigits |-> a.decimalDigits]
            /\ Difference(a, b) =
                   [currency |-> a.currency, subunits |-> a.subunits - b.subunits,
                    decimalDigits |-> a.decimalDigits]
            /\ Sum(a, b) = Sum(b, a)
            /\ Sum(Sum(a, b), c) = Sum(a, Sum(b, c))
            /\ Sum(a, zero(registry, a.currency).value) = a
            /\ Sum(Difference(a, b), b) = a

\* 0.01 was subtracted from -0.02 of a currency of two decimal digits
C22_Witness ==
    /\ call.op = "subtract"
    /\ "c" \in DOMAIN call
    /\ call.a.decimalDigits = 2
    /\ call.a.subunits = -2 /\ call.b.subunits = 1 /\ call.c.subunits = 3
    /\ ret.kind = "ok"
    /\ ret.value.subunits = -3
    /\ amount(ret.value) = <<"-", "0", ".", "0", "3">>

(***************************************************************************)
(* Money instances as objects.  Here monies is the heap: the sequence of   *)
(* the Money instances made so far, an instance being named by its index.  *)
(* A call names its operands by their indices, and ret.refs are the        *)
(* indices of the instances the call returned (none when it returned a     *)
(* boolean, a number, a text or a plain object, or threw).                 *)
(***************************************************************************)
MaxFrameSub == 2   \* the instances a behaviour starts from hold -MaxFrameSub..MaxFrameSub subunits

FrameTargets == {"USD", "EUR", "GBP"}

\* The empty store, and USD to EUR at 0.5 and at 2 with the automatic inverse
FrameStores ==
    {<<>>} \cup {setRate(<<>>, "USD", "EUR", r, FALSE, <<>>, TRUE) :
                    r \in {<<"0", ".", "5">>, <<"2">>}}

FrameValues(reg) ==
    {MoneyOf(reg, c, s) : c \in {"USD", "EUR"}, s \in -MaxFrameSub..MaxFrameSub}

\* A call of op on the instances operands with the other arguments args,
\* r being what the operation gives.  returns tells what a successful call
\* hands back: "instance", one new instance (new Money / Money.fromSubunits);
\* "array", an array of new instances; "operand", the first operand itself;
\* "other", something that is not a Money
Called(op, operands, args, r, returns) ==
    /\ ret = Pending
    /\ \E x \in {r} :
          LET made == IF x.kind # "ok" THEN <<>>
                      ELSE IF returns = "instance" THEN <<x.value>>
                      ELSE IF returns = "array" THEN x.value
                      ELSE <<>>
              refs == IF returns = "operand" THEN {operands[1]}
                      ELSE (Len(monies) + 1)..(Len(monies) + Len(made))
          IN  /\ call' = [op |-> op, operands |-> operands, args |-> args]
              /\ monies' = monies \o made
              /\ ret' = IF x.kind = "ok"
                        THEN [kind |-> "ok", value |-> x.value, refs |-> refs]
                        ELSE [kind |-> x.kind, refs |-> {}]
              /\ UNCHANGED <<registry, rates>>

\* two instances, a store, and one call of an operation to come
InitFrame ==
    /\ registry = registerCurrency(RegistryOf(2), "EUR", 2)
    /\ rates \in FrameStores
    /\ \E a \in FrameValues(registry), b \in FrameValues(registry) : monies = <<a, b>>
    /\ call = [op |-> "import"]
    /\ ret = Pending

\* add storing the sum into the instance it was called on
FrameAdd_InPlace ==
    /\ ret = Pending
    /\ \E i \in DOMAIN monies, j \in DOMAIN monies :
          \E x \in {add(registry, monies[i], monies[j])} :
              /\ call' = [op |-> "add", operands |-> <<i, j>>, args |-> <<>>]
              /\ monies' = IF x.kind = "ok" THEN [monies EXCEPT ![i] = x.value] ELSE monies
              /\ ret' = IF x.kind = "ok"
                        THEN [kind |-> "ok", value |-> x.value, refs |-> {i}]
                        ELSE [kind |-> x.kind, refs |-> {}]
              /\ UNCHANGED <<registry, rates>>

FrameAdd ==
    \E i \in DOMAIN monies, j \in DOMAIN monies :
        Called("add", <<i, j>>, <<>>, add(registry, monies[i], monies[j]), "instance")

FrameSubtract ==
    \E i \in DOMAIN monies, j \in DOMAIN monies :
        Called("subtract", <<i, j>>, <<>>, subtract(registry, monies[i], monies[j]), "instance")

FrameMultiply ==
    \E i \in DOMAIN monies, factor \in MultipliedFactors :
        Called("multiply", <<i>>, factor, multiply(registry, monies[i], factor), "instance")

FrameAllocate ==
    \E i \in DOMAIN monies, proportions \in AllocatedProportions \cup {<<>>} :
        Called("allocate", <<i>>, proportions,
                      allocate(registry, monies[i], proportions), "array")

FrameEqualTo ==
    \E i \in DOMAIN monies, j \in DOMAIN monies :
        Called("equalTo", <<i, j>>, <<>>, equalTo(monies[i], monies[j]), "other")

FrameGreaterThan ==
    \E i \in DOMAIN monies, j \in DOMAIN monies :
        Called("greaterThan", <<i, j>>, <<>>, greaterThan(monies[i], monies[j]), "other")

FrameLessThan ==
    \E i \in DOMAIN monies, j \in DOMAIN monies :
        Called("lessThan", <<i, j>>, <<>>, lessThan(monies[i], monies[j]), "other")

FrameGreaterThanOrEqual ==
    \E i \in DOMAIN monies, j \in DOMAIN monies :
        Called("greaterThanOrEqual", <<i, j>>, <<>>,
                 greaterThanOrEqual(monies[i], monies[j]), "other")

FrameLessThanOrEqual ==
    \E i \in DOMAIN monies, j \in DOMAIN monies :
        Called("lessThanOrEqual", <<i, j>>, <<>>, lessThanOrEqual(monies[i], monies[j]), "other")

FrameCompare ==
    \E i \in DOMAIN monies, j \in DOMAIN monies :
        Called("compare", <<i, j>>, <<>>, compare(monies[i], monies[j]), "other")

FrameIsZero ==
    \E i \in DOMAIN monies : Called("isZero", <<i>>, <<>>, Returned(isZero(monies[i])), "other")

FrameIsPositive ==
    \E i \in DOMAIN monies :
        Called("isPositive", <<i>>, <<>>, Returned(isPositive(monies[i])), "other")

FrameIsNegative ==
    \E i \in DOMAIN monies :
        Called("isNegative", <<i>>, <<>>, Returned(isNegative(monies[i])), "other")

FrameToJSON ==
    \E i \in DOMAIN monies : Called("toJSON", <<i>>, <<>>, Returned(toJSON(monies[i])), "other")

FrameToString ==
    \E i \in DOMAIN monies :
        Called("toString", <<i>>, <<>>, Returned(toString(monies[i])), "other")

FrameToNumber ==
    \E i \in DOMAIN monies :
        Called("toNumber", <<i>>, <<>>, Returned(toNumber(monies[i])), "other")

FrameToSubunits ==
    \E i \in DOMAIN monies :
        Called("toSubunits", <<i>>, <<>>, Returned(toSubunits(monies[i])), "other")

\* MoneyConverter.convert: the short circuit returns the instance it was given
FrameConvert ==
    \E i \in DOMAIN monies, t \in FrameTargets :
        Called("converter.convert", <<i>>, t, convert(registry, rates, monies[i], t),
               IF monies[i].currency = t THEN "operand" ELSE "instance")

FrameConverterAdd ==
    \E i \in DOMAIN monies, j \in DOMAIN monies, t \in FrameTargets :
        Called("converter.add", <<i, j>>, t,
                 MoneyConverter_add(registry, rates, monies[i], monies[j], t), "instance")

FrameConverterSubtract ==
    \E i \in DOMAIN monies, j \in DOMAIN monies, t \in FrameTargets :
        Called("converter.subtract", <<i, j>>, t,
                 MoneyConverter_subtract(registry, rates, monies[i], monies[j], t), "instance")

FrameConverterSum ==
    \E list \in UNION {[1..n -> DOMAIN monies] : n \in 0..MaxSummed}, t \in FrameTargets :
        Called("converter.sum", list, t,
                 MoneyConverter_sum(registry, rates, [k \in DOMAIN list |-> monies[list[k]]], t), "instance")

FrameConverterCompare ==
    \E i \in DOMAIN monies, j \in DOMAIN monies :
        Called("converter.compare", <<i, j>>, <<>>,
                 MoneyConverter_compare(registry, rates, monies[i], monies[j]), "other")

FrameConverterPercentageOf ==
    \E i \in DOMAIN monies, j \in DOMAIN monies :
        Called("converter.percentageOf", <<i, j>>, <<>>,
                 MoneyConverter_percentageOf(registry, rates, monies[i], monies[j]), "other")

NextFrame ==
    \/ FrameAdd
    \/ FrameSubtract
    \/ FrameMultiply
    \/ FrameAllocate
    \/ FrameEqualTo
    \/ FrameGreaterThan
    \/ FrameLessThan
    \/ FrameGreaterThanOrEqual
    \/ FrameLessThanOrEqual
    \/ FrameCompare
    \/ FrameIsZero
    \/ FrameIsPositive
    \/ FrameIsNegative
    \/ FrameToJSON
    \/ FrameToString
    \/ FrameToNumber
    \/ FrameToSubunits
    \/ FrameConvert
    \/ FrameConverterAdd
    \/ FrameConverterSubtract
    \/ FrameConverterSum
    \/ FrameConverterCompare
    \/ FrameConverterPercentageOf

SpecFrame == InitFrame /\ [][NextFrame]_vars

\* the step is a call of a Money or a converter operation
IsOperationStep == call'.op # "import"

\* the step left every instance, the store and the registry as they were
LeavesAllAlone ==
    /\ registry' = registry
    /\ rates' = rates
    /\ Len(monies') >= Len(monies)
    /\ \A i \in DOMAIN monies : monies'[i] = monies[i]

\* the instances the step returned are none of its operands
ReturnsSeparate == \A k \in DOMAIN call'.operands : call'.operands[k] \notin ret'.refs

ExactReciprocals(x, y) ==
    /\ key(x, y) \in DOMAIN rates
    /\ key(y, x) \in DOMAIN rates
    /\ NumMul(NumberOf(rates[key(x, y)].rate), NumberOf(rates[key(y, x)].rate))
           = Normalize(1, 0)

\* C29: for two values a and b of different registered currencies whose
\* rates are stored in both directions as exact reciprocals, whenever
\* converter.compare(a, b) and converter.compare(b, a) both succeed,
\* compare(a, b) = -compare(b, a)
C29_CompareAntisymmetric ==
    (call.op = "converter.compare" /\ ret.kind = "ok") =>
        LET a == monies[call.operands[1]]
            b == monies[call.operands[2]]
            reverse == MoneyConverter_compare(registry, rates, b, a)
        IN  (/\ a.currency # b.currency
             /\ a.currency \in DOMAIN registry
             /\ b.currency \in DOMAIN registry
             /\ ExactReciprocals(a.currency, b.currency)
             /\ reverse.kind = "ok") => ret.value = -reverse.value

====
